---- MODULE Spec2Model ----
(***************************************************************************)
(* State-machine model of the auditree-framework compliance runner:        *)
(* ComplianceCLI._run (compliance/scripts/compliance_cli.py), the fetch    *)
(* and check runners (compliance/runners.py), the parts of the locker      *)
(* (compliance/locker.py), the evidence helpers (compliance/evidence.py),  *)
(* the report builder, the fixer and the notifiers they call.              *)
(***************************************************************************)
EXTENDS Integers, Sequences, FiniteSets, TLC

(***************************************************************************)
(* The world of one invocation.                                            *)
(***************************************************************************)

\* Fetcher methods in dot notation (module.class.method).
FA == "pkg.fetch_a.FetchA.fetch_a"
FB == "pkg.fetch_b.FetchB.fetch_b"
Fetchers == {FA, FB}

\* Evidence paths.  EA is stored by FA, EB by FB; EX is stored by no fetcher
\* of this invocation (it was put in the locker, or not, by an earlier one).
EA == "raw/a/a.json"
EB == "raw/b/b.json"
EX == "raw/x/x.json"
NoEv == "none"
Evidences == {EA, EB, EX}

\* The evidence a fetcher stores through store_raw_evidence.
Target(f) == IF f = FA THEN EA ELSE EB

\* Evidence whose TTL may run out while the invocation is executing: only
\* evidence of an earlier invocation; what this invocation stores keeps its
\* whole TTL for the rest of the run.
Expirable == {EX}

\* Check methods (unittest test ids) and their statuses.
Checks == {"pkg.test_c.CheckC.test_c"}
Statuses == {"pass", "warn", "fail", "error"}

\* CheckMode.results before run_checks has assigned it (init_config).
None == [none |-> TRUE]

\* A result map: empty when no check was discovered.
ResultMaps == {[c \in D |-> "pass"] : D \in {{}}} \cup [Checks -> Statuses]

EvidenceModes == {"local", "no-push", "full-remote"}
FixModes == {"off", "on", "dry-run"}

\* Values of --notify after _validate_arguments has appended stdout.
NotifyOpts == {<<"stdout">>, <<"locker", "stdout">>, <<"slack", "locker", "stdout">>,
               <<"slack", "pagerduty", "findings", "locker", "stdout">>}

\* Values of notify.slack.<accreditation>.mode in the configuration.
SlackModes == {"normal", "compact"}

\* The phases with a module that fails to import (fetch_*.py, test_*.py).
BrokenOpts == SUBSET {"fetch", "check"}

\* Values of --force.
ForceOpts == {{}, {EA}}

\* Evidence registered in the evidence cache by the project's evidences
\* modules (config.add_evidences at import time).
CacheOpts == {{}, {EA}}

\* Evidence fresh in the locker when the invocation starts.
FreshOpts == SUBSET {EA, EX}

\* The dependency each fetcher asks for through get_evidence_dependency.
DepOpts == {d \in [Fetchers -> {NoEv, EA, EX}] : d[FA] # EA}

\* The fetcher each fetcher's rerun entry names: itself when the stack is
\* walked, any fetcher when the fetcher argument is given.
ViaOpts == [Fetchers -> Fetchers]

\* Exit code of a process that has not returned from _run.
NoCode == -1

VARIABLES
    opts,                 \* parsed command line arguments
    broken,               \* phases one of whose modules fails to import
    slack_mode,           \* attachment mode configured for the Slack notifier
    dep,                  \* fetcher -> evidence path it depends on
    via,                  \* fetcher -> fetcher named by its rerun entry
    evidence_cache,       \* config._evidence_cache: registered paths
    cache_content,        \* cached evidence objects whose content is set
    cfg_dependency_rerun, \* config.dependency_rerun
    fresh,                \* evidence in the working tree with unexpired TTL
    staged,               \* paths added to the git index, not committed
    unpushed,             \* paths committed locally, not on the remote
    dependency_rerun,     \* locker.dependency_rerun (list of rerun entries)
    pc,                   \* position in ComplianceCLI._run
    success,              \* _run's success flag
    exit_code,            \* value returned by _run
    todo,                 \* fetchers of the current pass not yet executed
    pass_ok,              \* no error but DependencyUnavailable in this pass
    previous,             \* _run's previous
    reruns,               \* _run's reruns
    rerun_count,          \* _run's rerun_count
    passes,               \* number of rerun passes started
    dep_failed,           \* fetchers that raised DependencyUnavailable in the primary pass
    other_error,          \* some fetcher raised another error
    wrote,                \* evidence stored by fetchers in this invocation
    reexecuted,           \* fetchers executed in some rerun pass
    results,              \* CheckMode.results
    exc,                  \* exception in flight out of the CheckMode body
    build_failed,         \* exception in flight out of ReportBuilder's locker context
    push_error,           \* CheckMode.push_error
    push_log,             \* push attempts made on the remote, in order
    fix_invoked,          \* checks whose fix routine was called
    notified,             \* notifiers constructed, with their push_error
    steps,                \* steps of CheckMode.__exit__, in order
    load_errors,          \* phases whose runner recorded a load error
    outbound,             \* calls made by notifiers to their external sinks
    \* --- one unittest run of check methods (ComplianceCheck.run) ---
    suite,                \* check methods not yet run
    running,              \* the check method being run
    failures,             \* method -> failures accumulated (failures_count)
    warnings,             \* method -> warnings accumulated (warnings_count)
    ended,                \* method -> how its body ended
    run_results,          \* ComplianceCheckResult.results: method -> status
    \* --- one evidence locker (Locker) ---
    now,                  \* the clock, in ticks
    commit_date,          \* Locker.commit_date
    ttl_tolerance,        \* Locker.ttl_tolerance
    forced_evidence,      \* Locker.forced_evidence
    tree,                 \* files of the working tree
    index_json,           \* directory -> content of its index.json
    git_index,            \* paths in the git index
    git_staged,           \* paths added to the git index since the last commit
    added,                \* evidence handed to add_evidence by this locker object
    validated,            \* the last call of Locker.validate or load_content and its result
    \* --- retrieval from the primary locker and its extra lockers ---
    lockers,              \* what the primary locker and each extra locker hold
    ignore_signatures,    \* locker.ignore_signatures of the configuration
    got,                  \* the last call of Locker.get_evidence and its result
    \* --- threads calling Locker.add_evidence on one directory ---
    lock,                 \* Locker.lock: the thread holding it, or NoThread
    th_pc,                \* thread -> its position in add_evidence and index
    th_evidence,          \* thread -> the evidence it is adding
    th_metadata,          \* thread -> its local variable metadata
    index_file,           \* the content of the directory's index.json
    dir_files,            \* evidence files written to the directory
    repo_index,           \* files handed to repo.index.add
    returned,             \* evidence name -> ttl of its last add_evidence that returned
    calls,                \* add_evidence calls started
    overlap,              \* some call started while another was in progress
    \* --- registrations in the evidence cache over one invocation ---
    run_args,             \* args.fetch and args.check of the invocation
    run_phase,            \* the part of ComplianceCLI._run in progress
    rerun_passes,         \* dependency rerun passes started
    config_dependency_rerun, \* ComplianceConfig.dependency_rerun
    config_evidence_cache,   \* ComplianceConfig._evidence_cache: path -> object
    registered,           \* the last call of add_evidences and how it ended
    \* --- a fetcher of derived evidence and the evidence it needs ---
    src_cache,            \* the source evidence in the evidence cache
    src_locker,           \* the source evidence in the locker
    target_valid,         \* locker.validate of the target evidence
    locker_dependency_rerun, \* Locker.dependency_rerun
    fetched,              \* the last run of a fetcher and how it ended
    \* --- the PagerDuty notifier and the alerts of its service ---
    pd_config,            \* notify.pagerduty: accreditation -> its configuration
    pd_results,           \* check -> status and alert body of this run
    pd_alerts,            \* alerts listed for the service, oldest first
    pd_events,            \* events sent by pagerduty.send_event, in order
    pd_applied,           \* events the service has acted on
    pd_next,              \* the accreditation notify treats next
    pd_last,              \* the last accreditation treated and what was sent
    \* --- the GitHub issues notifier and the issue of one check ---
    gh_statuses,          \* notify.gh_issues.<accreditation>.status
    gh_issue,             \* the open issue with the check's title, or None
    gh_created,           \* issues created by add_issue
    gh_last,              \* the last turn of _notify_by_check_issues
    \* --- one partitioned evidence and the commits of its locker ---
    rt_doc,               \* the document the fetcher obtained
    rt_added,             \* the evidence object last added, or None
    rt_tree,              \* working tree: file name -> document
    rt_index,             \* the evidence's entry of index.json, or None
    rt_dirty,             \* something was added since the last checkin
    rt_commits,           \* the commits, one a day: tree and entry
    rt_got,               \* the last get_evidence and what it returned
    \* --- one evidence object and its content, digest and signature ---
    sg_agent,             \* the private key of the evidence's agent, or NoKey
    sg_extension,         \* the extension of the evidence's name
    sg_content,           \* _BaseEvidence._content
    sg_digest,            \* _BaseEvidence._digest
    sg_signature,         \* _BaseEvidence._signature
    sg_index,             \* the entry index() wrote for the evidence, or None
    \* --- threads calling the locked operations of the lockers ---
    lk_lock,              \* Locker.lock: the thread that holds it, or NoThread
    lk_pc,                \* thread -> where it is in its call
    lk_op,                \* thread -> the operation and locker of its call
    lk_last,              \* thread -> how its previous call ended
    lk_calls,             \* calls made so far
    \* --- one SlackNotifier._send_message ---
    sl_retries,           \* notify.slack retries of the configuration
    sl_channels,          \* the channels the message goes to, in order
    sl_pc,                \* where _send_message is
    sl_channel,           \* index of the channel of the current iteration
    sl_retry,             \* the local retry
    sl_posts,             \* channel -> requests.post calls made
    sl_delivered,         \* channels whose post got a successful response
    sl_slept              \* seconds slept so far

vars == <<opts, dep, via, evidence_cache, cache_content, cfg_dependency_rerun,
          fresh, staged, unpushed, dependency_rerun, pc, success, exit_code,
          todo, pass_ok, previous, reruns, rerun_count, passes,
          dep_failed, other_error, wrote, reexecuted, results, exc,
          build_failed, push_error, push_log, fix_invoked, notified, steps,
          broken, slack_mode, load_errors, outbound,
          suite, running, failures, warnings, ended, run_results,
          now, commit_date, ttl_tolerance, forced_evidence, tree, index_json,
          git_index, git_staged, added, validated,
          lockers, ignore_signatures, got,
          lock, th_pc, th_evidence, th_metadata, index_file, dir_files,
          repo_index, returned, calls, overlap,
          run_args, run_phase, rerun_passes, config_dependency_rerun,
          config_evidence_cache, registered,
          src_cache, src_locker, target_valid, locker_dependency_rerun, fetched,
          pd_config, pd_results, pd_alerts, pd_events, pd_applied, pd_next,
          pd_last,
          gh_statuses, gh_issue, gh_created, gh_last,
          rt_doc, rt_added, rt_tree, rt_index, rt_dirty, rt_commits, rt_got,
          sg_agent, sg_extension, sg_content, sg_digest, sg_signature, sg_index,
          lk_lock, lk_pc, lk_op, lk_last, lk_calls,
          sl_retries, sl_channels, sl_pc, sl_channel, sl_retry, sl_posts, sl_delivered, sl_slept>>

fetchVars == <<todo, pass_ok, previous, reruns, rerun_count, passes,
               dep_failed, other_error, wrote, reexecuted,
               dependency_rerun, cfg_dependency_rerun>>
checkVars == <<results, exc, build_failed, push_error, fix_invoked, notified, steps,
               outbound>>
worldVars == <<opts, dep, via, evidence_cache, broken, slack_mode>>
checkRunVars == <<suite, running, failures, warnings, ended, run_results>>
lockerVars == <<now, commit_date, ttl_tolerance, forced_evidence, tree, index_json,
                git_index, git_staged, added, validated>>
getVars == <<lockers, ignore_signatures, got>>
concVars == <<lock, th_pc, th_evidence, th_metadata, index_file, dir_files,
              repo_index, returned, calls, overlap>>
regVars == <<run_args, run_phase, rerun_passes, config_dependency_rerun,
             config_evidence_cache, registered>>
derivedVars == <<src_cache, src_locker, target_valid, locker_dependency_rerun,
                 fetched>>
pdVars == <<pd_config, pd_results, pd_alerts, pd_events, pd_applied, pd_next,
            pd_last>>
ghVars == <<gh_statuses, gh_issue, gh_created, gh_last>>
rtVars == <<rt_doc, rt_added, rt_tree, rt_index, rt_dirty, rt_commits, rt_got>>
sgVars == <<sg_agent, sg_extension, sg_content, sg_digest, sg_signature, sg_index>>
lkVars == <<lk_lock, lk_pc, lk_op, lk_last, lk_calls>>
slVars == <<sl_retries, sl_channels, sl_pc, sl_channel, sl_retry, sl_posts, sl_delivered, sl_slept>>
studyVars == <<concVars, regVars, derivedVars, pdVars, ghVars, rtVars, sgVars, lkVars, slVars>>
partVars == <<getVars, studyVars>>
libVars == <<checkRunVars, lockerVars, partVars>>

(***************************************************************************)
(* Pure parts of the code.                                                 *)
(***************************************************************************)

\* _BaseRunner._create_the_locker: the locker has a remote URL unless the
\* evidence mode is local, and pushes only in full-remote mode.
HasRepoUrl(o) == o.evidence # "local"
DoPush(o) == o.evidence = "full-remote"

\* _BaseRunner.init_locker: every --force path goes on forced_evidence, in
\* the fetch runner's locker and in the check runner's locker alike.
ForcedEvidence(o) == o.force

\* Locker._validate_evidence / Locker.validate: forced evidence is stale,
\* evidence not in the working tree or past its TTL is not valid.
Validate(o, fr, e) == e \notin ForcedEvidence(o) /\ e \in fr

\* get_evidence_dependency: the evidence cache wins when it holds content,
\* otherwise the locker is read (and validated).
DependencyAvailable(o, cc, fr, e) == e \in cc \/ Validate(o, fr, e)

\* Locker.get_dependency_reruns: the set of dotted names on the rerun list.
RECURSIVE SeqToSet(_)
SeqToSet(s) == IF s = <<>> THEN {} ELSE {Head(s)} \cup SeqToSet(Tail(s))
get_dependency_reruns(lst) == SeqToSet(lst)

\* Upper bound of the rerun loop.
MaxReruns == 100

\* The loop condition without the fixed-point test.
LoopGuardNoFixedPoint(rr, prev, cnt) == rr # {} /\ cnt <= MaxReruns

\* The condition of the while loop of _run.
LoopGuard(rr, prev, cnt) == rr # {} /\ rr # prev /\ cnt <= MaxReruns

\* A rerun pass that loads every fetcher again.
PassFetchersAll(primary, rr) == Fetchers

\* run_fetchers: the fetchers a pass executes; the primary pass (reruns is
\* None) executes every discovered fetcher, a rerun pass the names given.
PassFetchers(primary, rr) == IF primary THEN Fetchers ELSE rr

\* _run: success after a rerun pass.
RerunSuccess(ran, prev) == ran /\ prev

\* _run: success after the loop, given the reruns left over.
LoopEndSuccess(rr, prev) == IF rr # {} THEN FALSE ELSE prev

\* The same without the and: the check phase overrides the fetch phase.
CheckSuccessOverrides(ran, prev) == ran

\* _run: success after run_checks.
CheckSuccess(ran, prev) == ran /\ prev

\* CheckMode.run_checks: True when the run recorded no error.
ChecksOk(res) == \A c \in DOMAIN res : res[c] # "error"

\* A fetch exit that pushes whatever follows.
FetchExitAlwaysPushes(o) == TRUE

\* FetchMode.__exit__: push only when the check phase was not requested.
FetchExitPushes(o) == ~o.check

\* Fixer.fix: the fix routines called for a result map.
FixTargets(res) == IF res = None \/ DOMAIN res = {} THEN {}
                   ELSE {c \in DOMAIN res : res[c] = "fail"}

\* A locker notifier that does not look at push_error.
LockerNotifierIgnoresPushError(res, perr) == res = None \/ DOMAIN res = {}

\* LockerNotifier.notify returns early without results or after a push error.
LockerNotifierSkips(res, perr) == res = None \/ DOMAIN res = {} \/ perr

\* _run's return value.
ExitCode(s) == IF s THEN 0 ELSE 1

(***************************************************************************)
(* Load errors and the outbound calls of the notifiers.                    *)
(***************************************************************************)

\* FetchMode.get_fetchers / CheckMode.get_checks: a module that fails to
\* import yields no test class and is recorded on the runner's load_errors.
FetchLoadErrors(b) == b \cap {"fetch"}
CheckLoadErrors(b) == b \cap {"check"}

\* _BaseNotifier._messages_by_accreditations: there is something to send
\* when the result map holds a check of a configured accreditation.
HasMessages(res) == res # None /\ DOMAIN res # {}

\* SlackNotifier._generate_message: after a push error the attachments are
\* the push-error notice, in either mode; otherwise those of the mode.
SlackAttachments(mode, perr) == IF perr THEN "push_error" ELSE mode

\* SlackNotifier.notify posts one message per accreditation with messages.
SlackPosts(res, perr) == HasMessages(res)

\* A paging notifier that does not look at push_error.
PagerDutyCallsAnyway(res, perr) == HasMessages(res)

\* PagerDutyNotifier.notify returns at once after a push error; otherwise
\* it queries the open alerts of every accreditation with messages.
PagerDutyCalls(res, perr) == ~perr /\ HasMessages(res)

\* FindingsNotifier.notify returns at once after a push error; otherwise it
\* posts the occurrences of every message.
FindingsCalls(res, perr) == ~perr /\ HasMessages(res)

\* Whether notify() of the named notifier calls its external sink.
Outbound(name, res, perr) ==
    CASE name = "slack" -> SlackPosts(res, perr)
      [] name = "pagerduty" -> PagerDutyCalls(res, perr)
      [] name = "findings" -> FindingsCalls(res, perr)
      [] OTHER -> FALSE

\* The call as seen by the sink.
OutboundCall(name, mode, perr) ==
    [name |-> name, push_error |-> perr,
     mode |-> IF name = "slack" THEN mode ELSE "n/a",
     payload |-> IF name = "slack" THEN SlackAttachments(mode, perr) ELSE "results"]

\* The notifiers whose outbound call may raise out of run_notifiers
\* (raise_for_status); FindingsNotifier._create_findings catches its errors.
MayRaise(name) == name \in {"slack", "pagerduty"}

(***************************************************************************)
(* One unittest run of check methods: ComplianceCheck.run and              *)
(* ComplianceCheckResult.                                                  *)
(***************************************************************************)

\* The check methods of the suite; each runs on its own TestCase instance.
Methods == {"test_one", "test_two"}
NoMethod == "none"

\* Bound on the failures, and on the warnings, one method accumulates.
MaxIssues == 2

\* How a method body ends: it returns, raises the failure exception of an
\* assert* call, raises another exception, or raises SkipTest.
Endings == {"returned", "assertion", "exception", "skipped"}
NotRun == "not_run"

EmptyMap == [x \in {} |-> x]

\* A wrapper without the failures_count assertion.
ReportedNoCountCheck(e, f) ==
    CASE e = "skipped" -> "skip"
      [] e = "exception" -> "error"
      [] e = "assertion" -> "failure"
      [] OTHER -> "success"

\* ComplianceCheck.run's wrapper followed by unittest's outcome handling:
\* the body runs, then assertEquals(failures_count(), 0); SkipTest is
\* reported as a skip, the failure exception as a failure, any other
\* exception as an error, a normal return as a success.
Reported(e, f) ==
    CASE e = "skipped" -> "skip"
      [] e = "exception" -> "error"
      [] e = "assertion" -> "failure"
      [] OTHER -> IF f # 0 THEN "failure" ELSE "success"

\* ComplianceCheckResult.addSuccess / addFailure / addError -> record: the
\* status written under the test id; addSkip is not overridden and records
\* nothing.
Record(res, m, rep, w) ==
    CASE rep = "success" -> (m :> (IF w = 0 THEN "pass" ELSE "warn")) @@ res
      [] rep = "failure" -> (m :> "fail") @@ res
      [] rep = "error" -> (m :> "error") @@ res
      [] OTHER -> res

CheckRunIdle ==
    /\ suite = {}
    /\ running = NoMethod
    /\ failures = [m \in Methods |-> 0]
    /\ warnings = [m \in Methods |-> 0]
    /\ ended = [m \in Methods |-> NotRun]
    /\ run_results = EmptyMap

(***************************************************************************)
(* One evidence locker: Locker.add_evidence, Locker.index and              *)
(* Locker.validate.                                                        *)
(***************************************************************************)

\* The clock counts ticks of half a second, up to MaxTime.
TicksPerSecond == 2
MaxTime == 3

\* datetime.isoformat(): seconds, and the microseconds unless they are 0.
isoformat(t) == IF t % TicksPerSecond = 0
                THEN <<t \div TicksPerSecond>>
                ELSE <<t \div TicksPerSecond,
                       (t % TicksPerSecond) * (1000000 \div TicksPerSecond)>>

\* strptime(s, "%Y-%m-%dT%H:%M:%S.%f"): the format requires the fraction;
\* a string without it raises ValueError.
ParseError == -1
strptime(s) == IF Len(s) = 2
               THEN s[1] * TicksPerSecond + s[2] \div (1000000 \div TicksPerSecond)
               ELSE ParseError

\* The instant a timestamp string denotes, with or without fraction.
InstantOf(s) == s[1] * TicksPerSecond
                + (IF Len(s) = 2 THEN s[2] \div (1000000 \div TicksPerSecond) ELSE 0)

\* Evidence TTLs and locker tolerances, in seconds.
TTLs == {1, 2}
Tolerances == {0, 1}

\* Locker._evidence_ttl_expired, for a parsed last_update.
TtlExpired(t, last, ttl, tol) == (t - last) >= (ttl - tol) * TicksPerSecond

\* Partition keys: lists of the values of the partition fields.
K1 == <<"ab", "c">>
K2 == <<"a", "bc">>
K3 == <<"x", "y">>
PartitionKeys == {K1, K2, K3}

\* get_sha256_hash(key, 10): the digest of the concatenated field values
\* (the hash object is updated with each value in turn).
Hash(k) == "sha_" \o k[1] \o k[2]

\* Evidence objects.  Every evidence is <name> of category <category>; raw
\* evidence is unpartitioned or partitioned by its content's keys, tmp
\* evidence belongs to no agent or to the agent of the run.
Category == "category"
EvName == "evidence.json"
NoAgent == "none"
Agent == "agent1"
RawEvidences == {[type |-> "raw", agent |-> NoAgent, is_partitioned |-> part,
                  partition_keys |-> ks] :
                     part \in BOOLEAN, ks \in SUBSET PartitionKeys}
TmpEvidences == {[type |-> "tmp", agent |-> a, is_partitioned |-> FALSE,
                  partition_keys |-> {}] : a \in {NoAgent, Agent}}
EvidenceObjects == {e \in RawEvidences : ~e.is_partitioned => e.partition_keys = {}}
                   \cup TmpEvidences

\* ComplianceAgent.get_path and the path properties of _BaseEvidence; a
\* path is the tuple of its parts.
get_path(agent, path) == IF agent # NoAgent /\ Head(path) # "agents"
                         THEN <<"agents", agent>> \o path
                         ELSE path
rootdir(ev) == get_path(ev.agent, <<ev.type>>)
dir_path(ev) == rootdir(ev) \o <<Category>>
path(ev) == dir_path(ev) \o <<EvName>>
PartitionName(h) == h \o "_" \o EvName
PartitionFile(ev, h) == dir_path(ev) \o <<PartitionName(h)>>
IndexFile(dir) == dir \o <<"index.json">>

\* str.startswith("tmp/") on the evidence path.
StartsWithTmp(p) == Head(p) = "tmp"

\* Values of Locker.forced_evidence (init_locker puts --force paths on it).
ForcedSets == {{}, {<<"raw", Category, EvName>>}, {<<"tmp", Category, EvName>>}}

\* The partitions map index() builds: hash -> key, the key written last
\* when two keys share a hash (partition_keys is built from a set).
PartsOf(ks) == {p \in [{Hash(k) : k \in ks} -> ks] : \A h \in DOMAIN p : Hash(p[h]) = h}

\* Bound on the tombstone records of the locker: no evidence is added once
\* it holds that many.
MaxTombstones == 2

\* A tombstone stamped with the time of the removal alone.
TombstoneStampedAnew(c, meta, eol, reason) ==
    [eol |-> eol, last_update |-> eol, reason |-> reason,
     partition_key |-> IF c \in DOMAIN meta.partitions THEN meta.partitions[c] ELSE <<>>]

\* Locker.create_tombstone_metadata: the record of one candidate carries
\* the end of life, the last_update of the entry and, for a partition, its
\* key; one record is appended under each candidate, on the tombstones the
\* entry already holds.
TombstoneFor(c, meta, eol, reason) ==
    [eol |-> eol, last_update |-> meta.last_update, reason |-> reason,
     partition_key |-> IF c \in DOMAIN meta.partitions THEN meta.partitions[c] ELSE <<>>]
create_tombstone_metadata(ts, cands, meta, eol, reason) ==
    [c \in DOMAIN ts \cup cands |->
        IF c \in cands
        THEN Append(IF c \in DOMAIN ts THEN ts[c] ELSE <<>>,
                    TombstoneFor(c, meta, eol, reason))
        ELSE ts[c]]

\* The index entry of an evidence that has none (metadata.get(name, {})).
NoEntry == [last_update |-> <<>>, is_partitioned |-> FALSE,
            partitions |-> EmptyMap, tombstones |-> EmptyMap]

LockerIdle ==
    /\ now = 0
    /\ commit_date = isoformat(0)
    /\ ttl_tolerance = 0
    /\ forced_evidence = {}
    /\ tree = {}
    /\ index_json = EmptyMap
    /\ git_index = {}
    /\ git_staged = {}
    /\ added = EmptyMap
    /\ validated = None

(***************************************************************************)
(* Retrieval of evidence: Locker.get_evidence over the primary locker and  *)
(* its extra lockers, Locker.load_content and the signature check.         *)
(***************************************************************************)

\* evidence_dt: None ("now") or the date of a historical version.
NoDate == "none"
Dates == {NoDate, "2026-01-01"}

\* Keys of agents and contents of the evidence file: the agent named in the
\* index entry holds AgentKey; the content of the working tree and the
\* content of the version committed by the date.
AgentKey == "k1"
OtherKey == "k2"
ContentNow == "content_now"
ContentThen == "content_then"
ContentOther == "content_other"

\* ComplianceAgent.hash_and_sign and ComplianceAgent.verify: a signature
\* verifies against a content under a public key when it was made with the
\* matching private key over that same content.
NoSig == [key |-> "none", content |-> "none"]
hash_and_sign(key, content) == [key |-> key, content |-> content]
verify(public_key, content, signature) ==
    signature.key = public_key /\ signature.content = content

\* The signature field of an index entry written for a content: absent,
\* made by the agent over the content, made over another content (the file
\* changed afterwards), or made with another key.
Signatures(content) ==
    {NoSig, hash_and_sign(AgentKey, content), hash_and_sign(AgentKey, ContentOther),
     hash_and_sign(OtherKey, content)}

\* TTL, in seconds, of the evidence of this study.
GetTtl == 1

\* What a locker holds for the evidence path: whether index.json has an
\* entry and the working tree has the file, the last_update and signature
\* of the entry; whether the index.json committed by the date has an entry,
\* whether the file has a commit by the date, and the signature of that
\* entry.  A last_update written at a whole second does not parse.
LockerStates ==
    {[entry |-> e, file |-> f, last_update |-> lu, signature |-> s,
      hist_entry |-> he, hist_file |-> hf, hist_signature |-> hs] :
        e \in BOOLEAN, f \in BOOLEAN, lu \in {isoformat(0), isoformat(1)},
        s \in Signatures(ContentNow),
        he \in BOOLEAN, hf \in BOOLEAN, hs \in Signatures(ContentThen)}

\* The lockers the study draws from: a file needs an entry, an unread
\* field has one value.
Canonical(lk) ==
    /\ lk.file => lk.entry
    /\ lk.hist_file => lk.hist_entry
    /\ ~lk.file => (lk.last_update = isoformat(1) /\ lk.signature = NoSig)
    /\ lk.last_update = isoformat(0) => lk.signature = NoSig
    /\ ~lk.hist_file => lk.hist_signature = NoSig
    /\ lk.hist_signature \in {NoSig, hash_and_sign(AgentKey, ContentThen),
                              hash_and_sign(AgentKey, ContentOther)}
PrimaryStates == {lk \in LockerStates : Canonical(lk)}

\* Extra lockers: empty, holding the current version only, holding the
\* historical version only, or both, unsigned or with a signature that
\* fails.
ExtraStates ==
    {lk \in PrimaryStates :
        /\ lk.entry = lk.file /\ lk.hist_entry = lk.hist_file
        /\ lk.last_update = isoformat(1)
        /\ lk.signature \in {NoSig, hash_and_sign(AgentKey, ContentOther)}
        /\ lk.hist_signature = NoSig
        /\ lk.signature # NoSig => lk.hist_file}

\* Bound on the extra lockers configured (locker.extra, locker.prev_repo_url).
MaxExtras == 2

\* Locker.get_evidence_metadata: the entry of index.json, or of the
\* index.json committed by the date; None without one.
get_evidence_metadata(lk, evidence_dt) ==
    IF evidence_dt = NoDate
    THEN IF lk.entry
         THEN [last_update |-> lk.last_update, signature |-> lk.signature]
         ELSE None
    ELSE IF lk.hist_entry
         THEN [last_update |-> lk.last_update, signature |-> lk.hist_signature]
         ELSE None

\* Locker._get_file_content: the file of the working tree, or the version
\* of the latest commit by the date.
get_file_content(lk, evidence_dt) ==
    IF evidence_dt = NoDate THEN ContentNow
    ELSE IF lk.hist_file THEN ContentThen ELSE "HistoricalEvidenceNotFoundError"

\* An exception raised by a locker, and the evidence it returns.
Raise(kind, lk_id, evidence) == [kind |-> kind, raised_by |-> lk_id, evidence |-> evidence]
Evidence(content, evidence_dt) == [content |-> content, evidence_dt |-> evidence_dt]
Returned(evidence) == [kind |-> "evidence", evidence |-> evidence]

\* _BaseEvidence.is_signed: the signature of the entry of index.json, read
\* without the date.
is_signed(lk) == get_evidence_metadata(lk, NoDate).signature # NoSig

\* _BaseEvidence.verify_signature: the signature of the entry read with the
\* date; UnverifiedEvidenceError when there is none, otherwise the verdict
\* of the agent's public key.
verify_signature(lk, content, evidence_dt) ==
    LET signature == get_evidence_metadata(lk, evidence_dt).signature
    IN IF signature = NoSig THEN "not signed"
       ELSE IF verify(AgentKey, content, signature) THEN "ok" ELSE "failed"

\* Locker._get_evidence -> Locker.load_content of locker lk at time t:
\* EvidenceNotFoundError without metadata; the errors of _validate_evidence
\* on the working tree and the entry of index.json; the content;
\* UnverifiedEvidenceError, carrying the evidence, when the entry is signed
\* and the signature is missing or fails.
locker_get_evidence(lk, lk_id, ignore_ttl, evidence_dt, t, ign_sig) ==
    IF get_evidence_metadata(lk, evidence_dt) = None
    THEN Raise("EvidenceNotFoundError", lk_id, None)
    ELSE IF ~lk.file THEN Raise("ValueError", lk_id, None)
    ELSE IF ~lk.entry THEN Raise("KeyError", lk_id, None)
    ELSE IF strptime(lk.last_update) = ParseError THEN Raise("ValueError", lk_id, None)
    ELSE IF ~ignore_ttl /\ TtlExpired(t, strptime(lk.last_update), GetTtl, 0)
         THEN Raise("StaleEvidenceError", lk_id, None)
    ELSE LET content == get_file_content(lk, evidence_dt) IN
         IF content = "HistoricalEvidenceNotFoundError"
         THEN Raise("HistoricalEvidenceNotFoundError", lk_id, None)
         ELSE IF ~ign_sig /\ is_signed(lk)
                 /\ verify_signature(lk, content, evidence_dt) # "ok"
              THEN Raise("UnverifiedEvidenceError", lk_id, Evidence(content, evidence_dt))
              ELSE Returned(Evidence(content, evidence_dt))

missing_errs == {"EvidenceNotFoundError", "HistoricalEvidenceNotFoundError"}

\* A fallback that tags the evidence with the locker asked first.
TaggedPrimary(primary, serving) == primary

\* Locker.get_evidence: evidence.locker is the locker whose _get_evidence
\* returned the evidence.
Tagged(primary, serving) == serving

\* A fallback that raises the miss of the locker asked last.
ReraisedLast(missing_err, last_err) == last_err

\* Locker.get_evidence: "raise missing_err" raises the miss caught from the
\* primary locker.
Reraised(missing_err, last_err) == missing_err

\* Locker.get_evidence: the loop over self._extra_lockers after a miss of
\* the primary, from extra locker i on; lks[1] is the primary.  The result
\* carries the locker that served the evidence (0 when an error is raised)
\* and the number of lockers consulted.
RECURSIVE extra_lockers_loop(_, _, _, _, _, _, _, _)
extra_lockers_loop(lks, i, missing_err, last_err, ignore_ttl, evidence_dt, t, ign_sig) ==
    IF i > Len(lks)
    THEN [outcome |-> Reraised(missing_err, last_err), locker |-> 0,
          consulted |-> Len(lks)]
    ELSE LET r == locker_get_evidence(lks[i], i, ignore_ttl, evidence_dt, t, ign_sig) IN
         IF r.kind \in missing_errs
         THEN extra_lockers_loop(lks, i + 1, missing_err, r, ignore_ttl, evidence_dt,
                                 t, ign_sig)
         ELSE [outcome |-> r,
               locker |-> IF r.kind = "evidence" THEN Tagged(1, i) ELSE 0,
               consulted |-> i]

get_evidence(lks, ignore_ttl, evidence_dt, t, ign_sig) ==
    LET r == locker_get_evidence(lks[1], 1, ignore_ttl, evidence_dt, t, ign_sig) IN
    IF r.kind \in missing_errs
    THEN extra_lockers_loop(lks, 2, r, r, ignore_ttl, evidence_dt, t, ign_sig)
    ELSE [outcome |-> r, locker |-> IF r.kind = "evidence" THEN 1 ELSE 0,
          consulted |-> 1]

\* No retrieval is under study.
GetIdle ==
    /\ lockers = <<>>
    /\ ignore_signatures = FALSE
    /\ got = None

\* The threads of the test harness that add evidence to one directory.
MaxThreads == 2
Threads == 1..MaxThreads
NoThread == 0

\* The calls of add_evidence followed.
MaxCalls == 3

\* The evidence the threads add, all of one directory, and their TTLs.
ConcNames == {"a.json", "b.json", "c.json"}
ConcTtls == {1, 2}

\* The mark of an evidence none of whose add_evidence calls has returned.
NotReturned == 0

\* An index.json without entries (metadata = {}).
NoMetadata == [n \in ConcNames |-> None]

\* Lock.acquire of the with statement returns when no thread holds the lock.
lock_acquire_unguarded(holder) == TRUE
lock_acquire(holder) == holder = NoThread

\* The positions of a thread between the lock's acquisition and its release.
InIndex == {"locked", "read", "updated", "flushed"}

\* No thread is adding evidence.
ConcIdle ==
    /\ lock = NoThread
    /\ th_pc = [t \in Threads |-> "idle"]
    /\ th_evidence = [t \in Threads |-> None]
    /\ th_metadata = [t \in Threads |-> NoMetadata]
    /\ index_file = NoMetadata
    /\ dir_files = {}
    /\ repo_index = {}
    /\ returned = [n \in ConcNames |-> NotReturned]
    /\ calls = 0
    /\ overlap = FALSE

\* The evidence objects handed to add_evidences: two objects for each of two
\* paths.
RegPaths == {"raw/cat/a.json", "raw/cat/b.json"}
RegObjects == [path : RegPaths, obj : {1, 2}]
NoObject == 0

\* The lists handed to add_evidences.
MaxList == 2
RegLists == UNION {[1..n -> RegObjects] : n \in 1..MaxList}

\* The rerun passes followed (ComplianceCLI._run allows a hundred).
MaxPasses == 2

\* ComplianceConfig.__init__: an empty cache.
EmptyCache == [p \in RegPaths |-> NoObject]

\* ComplianceConfig.add_evidences from element i of the list on: the cache
\* afterwards and the path whose registration raised ValueError, if any.
RECURSIVE add_evidences(_, _, _, _)
add_evidences(cache, dependency_rerun_flag, evidence_list, i) ==
    IF i > Len(evidence_list)
    THEN [cache |-> cache, raised |-> "none"]
    ELSE LET e == evidence_list[i] IN
         IF ~dependency_rerun_flag /\ cache[e.path] # NoObject
         THEN [cache |-> cache, raised |-> e.path]
         ELSE add_evidences([cache EXCEPT ![e.path] = e.obj],
                            dependency_rerun_flag, evidence_list, i + 1)

\* No invocation is followed for its registrations.
RegIdle ==
    /\ run_args = None
    /\ run_phase = "none"
    /\ rerun_passes = 0
    /\ config_dependency_rerun = FALSE
    /\ config_evidence_cache = EmptyCache
    /\ registered = None

\* The fetcher methods followed, as the rerun entries name them.
DerivedFetchers ==
    {[module |-> "fetchers.m", class |-> "Fetcher", method |-> "fetch_one"],
     [module |-> "fetchers.m", class |-> "Fetcher", method |-> "fetch_two"]}

\* The length to which Locker.dependency_rerun is followed.
MaxRerunEntries == 2

\* Locker.get_evidence for the source: the evidence, or the error raised.
source_get_evidence(in_locker) ==
    CASE in_locker = "fresh" -> "evidence"
      [] in_locker = "stale" -> "StaleEvidenceError"
      [] in_locker = "unreadable" -> "ValueError"
      [] OTHER -> "EvidenceNotFoundError"

\* Locker.load_content for the cached source object without content.
source_load_content(in_locker) ==
    CASE in_locker = "fresh" -> "evidence"
      [] in_locker = "stale" -> "StaleEvidenceError"
      [] OTHER -> "ValueError"

\* The exceptions that are ValueError (utils/exceptions.py).
ValueErrors == {"ValueError", "EvidenceNotFoundError",
                "HistoricalEvidenceNotFoundError", "DependencyUnavailableError",
                "DependencyFetcherNotFoundError"}

\* get_evidence_by_path(path, locker) for the source: what the caller gets
\* (an evidence with content, an evidence without, or an error) and the
\* state of the cache afterwards.
get_evidence_by_path(cached, in_locker) ==
    IF cached = "content" THEN [outcome |-> "evidence", cached |-> cached]
    ELSE IF cached = "empty"
    THEN LET r == source_load_content(in_locker) IN
         [outcome |-> r, cached |-> IF r = "evidence" THEN "content" ELSE cached]
    ELSE LET r == source_get_evidence(in_locker) IN
         IF r = "evidence" THEN [outcome |-> r, cached |-> "content"]
         ELSE IF r \in ValueErrors
         THEN [outcome |-> "evidence without content", cached |-> cached]
         ELSE [outcome |-> r, cached |-> cached]

\* The frames of inspect.stack()[1:], the nearest caller first: the name of
\* the function, its module, and the class of its local variable self
\* ("none" for a function without self).
Frame(function, class) == [function |-> function, module |-> "fetchers.m",
                           class |-> class]
DerivedStacks ==
    {<<Frame("fetch_one", "Fetcher")>>,
     <<Frame("helper", "Fetcher"), Frame("fetch_two", "Fetcher")>>,
     <<Frame("fetch_two", "Fetcher"), Frame("fetch_one", "Fetcher")>>,
     <<Frame("fetch_helper", "none"), Frame("fetch_one", "Fetcher")>>,
     <<Frame("helper", "none"), Frame("test_check", "Check")>>}

\* frame_info.function.startswith(FETCH_PREFIX).
StartsWithFetch(function) == function \in {"fetch_one", "fetch_two", "fetch_helper"}

\* The optional argument fetcher, split at its last two dots.
NoFetcherArg == [module |-> "", class |-> "", method |-> ""]

\* The frame the walk over the stack stops at, 0 if it stops at none.
last_fetch_frame(stack) ==
    IF \E i \in 1..Len(stack) : StartsWithFetch(stack[i].function)
    THEN CHOOSE i \in 1..Len(stack) :
            /\ StartsWithFetch(stack[i].function)
            /\ \A j \in (i + 1)..Len(stack) : ~StartsWithFetch(stack[j].function)
    ELSE 0
first_fetch_frame(stack) ==
    IF \E i \in 1..Len(stack) : StartsWithFetch(stack[i].function)
    THEN CHOOSE i \in 1..Len(stack) :
            /\ StartsWithFetch(stack[i].function)
            /\ \A j \in 1..(i - 1) : ~StartsWithFetch(stack[j].function)
    ELSE 0

\* get_evidence_dependency: the rerun entry, or the error met on the way to
\* it (f_locals["self"] of a function without self is a KeyError).
rerun_entry(fetcher, stack) ==
    IF fetcher # NoFetcherArg THEN [kind |-> "entry", entry |-> fetcher]
    ELSE LET i == first_fetch_frame(stack) IN
         IF i = 0 THEN [kind |-> "DependencyFetcherNotFoundError", entry |-> NoFetcherArg]
         ELSE IF stack[i].class = "none" THEN [kind |-> "KeyError", entry |-> NoFetcherArg]
         ELSE [kind |-> "entry",
               entry |-> [module |-> stack[i].module, class |-> stack[i].class,
                          method |-> stack[i].function]]

\* get_evidence_dependency(path, locker, fetcher) for the source: what the
\* caller gets and the entry appended to locker.dependency_rerun.
get_evidence_dependency(cached, in_locker, fetcher, stack) ==
    IF cached = "content" THEN [outcome |-> "evidence", rerun |-> <<>>]
    ELSE LET r == source_get_evidence(in_locker) IN
         IF r \in {"StaleEvidenceError", "EvidenceNotFoundError"}
         THEN LET rerun == rerun_entry(fetcher, stack) IN
              IF rerun.kind = "entry"
              THEN [outcome |-> "DependencyUnavailableError", rerun |-> <<rerun.entry>>]
              ELSE [outcome |-> rerun.kind, rerun |-> <<>>]
         ELSE [outcome |-> r, rerun |-> <<>>]

\* No fetcher of derived evidence is followed.
DerivedIdle ==
    /\ src_cache = "absent"
    /\ src_locker = "missing"
    /\ target_valid = FALSE
    /\ locker_dependency_rerun = <<>>
    /\ fetched = None

\* The accreditations in the order notify treats them (messages.sort), and
\* the checks in the order of their titles (_split_by_status).
PDAccreds == <<"a1", "a2">>
PDChecks == <<"c1", "c2">>
PDCheckIds == {PDChecks[i] : i \in 1..Len(PDChecks)}

\* controls.get_accreditations: the accreditations of each check.
PDAccreditations(c) == IF c = "c1" THEN {"a1", "a2"} ELSE {"a2"}

\* The alert bodies (summary + body).
PDDetails == {"d1", "d2"}

\* The number of alerts listed for the service when the notifier starts.
MaxAlerts == 2

\* What notify.pagerduty may hold for an accreditation: nothing, a service
\* id, or a dictionary with a service id and a list of checks.
PDConfigs ==
    {[present |-> FALSE, all_checks |-> TRUE, pd_checks |-> {}],
     [present |-> TRUE, all_checks |-> TRUE, pd_checks |-> {}],
     [present |-> TRUE, all_checks |-> FALSE, pd_checks |-> {"c1"}],
     [present |-> TRUE, all_checks |-> FALSE, pd_checks |-> {}]}

PDAlert == [test : PDCheckIds, details : PDDetails]
PDAlertLists == UNION {[1..n -> PDAlert] : n \in 0..MaxAlerts}

\* _get_alerts: alerts.sort(key=created_at, reverse=True).
RECURSIVE LatestFirst(_)
LatestFirst(alerts) ==
    IF alerts = <<>> THEN <<>>
    ELSE <<alerts[Len(alerts)]>> \o LatestFirst(SubSeq(alerts, 1, Len(alerts) - 1))

\* _get_alerts: an alert is kept unless an equal one is already kept.
RECURSIVE latest_alerts(_, _)
latest_alerts(alerts, kept) ==
    IF alerts = <<>> THEN kept
    ELSE latest_alerts(Tail(alerts),
                       IF \E i \in 1..Len(kept) : kept[i] = Head(alerts)
                       THEN kept ELSE Append(kept, Head(alerts)))

\* PagerDutyNotifier._get_alerts for the alerts the service lists.
get_alerts(listed) == latest_alerts(LatestFirst(listed), <<>>)

\* next((a for a in alerts if a["test"] == test_id), None).
existing_alert(alerts, test_id) ==
    LET hits == SelectSeq(alerts, LAMBDA a : a.test = test_id) IN
    IF hits = <<>> THEN None ELSE Head(hits)

\* existing_alert["details"] == details.
same_details_never(alert, details) == FALSE
same_details(alert, details) == alert.details = details

\* _resolve_alert and _trigger_alert: the event handed to send_event.
resolve_alert(test_id, accreditation) ==
    <<[action |-> "resolve", check |-> test_id, source |-> accreditation,
       details |-> ""]>>
trigger_alert(test_id, accreditation, details) ==
    <<[action |-> "trigger", check |-> test_id, source |-> accreditation,
       details |-> details]>>

\* _update_alert: resolve, then trigger.
update_alert_trigger_first(test_id, accreditation, details) ==
    trigger_alert(test_id, accreditation, details) \o resolve_alert(test_id, accreditation)
update_alert(test_id, accreditation, details) ==
    resolve_alert(test_id, accreditation) \o trigger_alert(test_id, accreditation, details)

\* The checks of an accreditation with one of the statuses, by title.
PDWithStatus(accreditation, res, statuses) ==
    SelectSeq(PDChecks, LAMBDA c : /\ accreditation \in PDAccreditations(c)
                                   /\ res[c].status \in statuses)

\* A check is in scope of the accreditation's configuration.
in_scope(conf, test_id) == conf.all_checks \/ test_id \in conf.pd_checks

\* notify: the body of the loop over failed + errored for one check.
failing_events(conf, alerts, accreditation, test_id, details) ==
    IF ~in_scope(conf, test_id) THEN <<>>
    ELSE LET existing == existing_alert(alerts, test_id) IN
         IF existing # None /\ same_details(existing, details) THEN <<>>
         ELSE IF existing # None
         THEN update_alert(test_id, accreditation, details)
         ELSE trigger_alert(test_id, accreditation, details)

\* notify: the body of the loop over passed + warned for one check.
passing_events(alerts, accreditation, test_id) ==
    IF existing_alert(alerts, test_id) = None THEN <<>>
    ELSE resolve_alert(test_id, accreditation)

RECURSIVE failing_loop(_, _, _, _, _)
failing_loop(conf, alerts, accreditation, res, tests) ==
    IF tests = <<>> THEN <<>>
    ELSE failing_events(conf, alerts, accreditation, Head(tests),
                        res[Head(tests)].details)
         \o failing_loop(conf, alerts, accreditation, res, Tail(tests))

RECURSIVE passing_loop(_, _, _)
passing_loop(alerts, accreditation, tests) ==
    IF tests = <<>> THEN <<>>
    ELSE passing_events(alerts, accreditation, Head(tests))
         \o passing_loop(alerts, accreditation, Tail(tests))

\* notify: one turn of the loop over the accreditations, given the alerts
\* the service lists: the events sent.
accreditation_events(conf, listed, accreditation, res) ==
    LET desc == PDWithStatus(accreditation, res, {"pass", "fail", "warn", "error"}) IN
    IF ~conf.present \/ desc = <<>> THEN <<>>
    ELSE LET alerts == get_alerts(listed) IN
         failing_loop(conf, alerts, accreditation, res,
                      PDWithStatus(accreditation, res, {"fail"})
                      \o PDWithStatus(accreditation, res, {"error"}))
         \o passing_loop(alerts, accreditation,
                         PDWithStatus(accreditation, res, {"pass"})
                         \o PDWithStatus(accreditation, res, {"warn"}))

\* The service acts on an event (dedup_key = check): a resolve closes the
\* alerts of the key, a trigger opens one unless one of the key is open.
pagerduty_applies(listed, event) ==
    IF event.action = "resolve"
    THEN SelectSeq(listed, LAMBDA a : a.test # event.check)
    ELSE IF \E i \in 1..Len(listed) : listed[i].test = event.check
    THEN listed
    ELSE Append(listed, [test |-> event.check, details |-> event.details])

\* The PagerDuty notifier is not in use.
PDIdle ==
    /\ pd_config = <<>>
    /\ pd_results = <<>>
    /\ pd_alerts = <<>>
    /\ pd_events = <<>>
    /\ pd_applied = 0
    /\ pd_next = 0
    /\ pd_last = None

\* The labels of an issue: f"accreditation: {accred}", f"run status:
\* {status}", and labels given by people.
GHAccreds == {"a1", "a2"}
GHStatuses == {"pass", "fail", "warn", "error"}
GHLabels ==
    [kind : {"accreditation: "}, value : GHAccreds]
    \cup [kind : {"run status: "}, value : GHStatuses]
    \cup [kind : {""}, value : {"bug"}]

\* The comments followed on the issue, and the issues created.
MaxComments == 2

\* _generate_issues: the labels of the issue of a check.
issue_labels(accred, status) ==
    {[kind |-> "accreditation: ", value |-> accred],
     [kind |-> "run status: ", value |-> status]}

\* _update_issue_labels: the labels of the issue afterwards.
update_issue_labels(current_labels, labels) ==
    LET new_labels == labels \ current_labels IN
    IF new_labels # {}
    THEN {label \in current_labels : label.kind # "run status: "} \cup new_labels
    ELSE current_labels

\* _process_new_alerts for the issue of one check: the issue afterwards and
\* whether it was created.
process_new_alerts(found, labels) ==
    IF found = None
    THEN [issue |-> [labels |-> labels, comments |-> 0], created |-> 1]
    ELSE [issue |-> [labels |-> update_issue_labels(found.labels, labels),
                     comments |-> found.comments + 1],
          created |-> 0]

\* _process_old_alerts for the issue of one check.
process_old_alerts(found, labels) ==
    IF found = None
    THEN [issue |-> found, created |-> 0]
    ELSE [issue |-> [labels |-> update_issue_labels(found.labels, labels),
                     comments |-> found.comments + 1],
          created |-> 0]

\* _notify_by_check_issues for the result of one check.
notify_by_check_issues(statuses, found, accred, status) ==
    LET new == IF status \in statuses
               THEN process_new_alerts(found, issue_labels(accred, status))
               ELSE [issue |-> found, created |-> 0] IN
    IF "pass" \notin statuses /\ status = "pass"
    THEN process_old_alerts(new.issue, issue_labels(accred, status))
    ELSE new

\* The GitHub issues notifier is not in use.
GHIdle ==
    /\ gh_statuses = {}
    /\ gh_issue = None
    /\ gh_created = 0
    /\ gh_last = None

\* No partitioned evidence is written or read back.
RtIdle ==
    /\ rt_doc = None
    /\ rt_added = None
    /\ rt_tree = <<>>
    /\ rt_index = None
    /\ rt_dirty = FALSE
    /\ rt_commits = <<>>
    /\ rt_got = None

\* No evidence object is given content.
SgIdle ==
    /\ sg_agent = None
    /\ sg_extension = None
    /\ sg_content = None
    /\ sg_digest = None
    /\ sg_signature = None
    /\ sg_index = None

\* No thread calls a locked operation.
LkIdle ==
    /\ lk_lock = NoThread
    /\ lk_pc = [t \in Threads |-> "idle"]
    /\ lk_op = [t \in Threads |-> None]
    /\ lk_last = [t \in Threads |-> "none"]
    /\ lk_calls = 0

\* No message is sent to Slack.
SlIdle ==
    /\ sl_retries = 0
    /\ sl_channels = <<>>
    /\ sl_pc = "idle"
    /\ sl_channel = 0
    /\ sl_retry = 0
    /\ sl_posts = <<>>
    /\ sl_delivered = {}
    /\ sl_slept = 0

\* No further part of the library is under study.
StudyIdle ==
    /\ ConcIdle
    /\ RegIdle
    /\ DerivedIdle
    /\ PDIdle
    /\ GHIdle
    /\ RtIdle
    /\ SgIdle
    /\ LkIdle
    /\ SlIdle

\* No part of the library studied on its own is in use.
PartsIdle ==
    /\ GetIdle
    /\ StudyIdle

(***************************************************************************)
(* Initial state: the arguments are parsed and validated, nothing ran.     *)
(***************************************************************************)

\* ComplianceCLI._validate_arguments
ValidOpts(o) ==
    /\ o.fetch \/ o.check
    /\ ~o.check => o.fix = "off"

OptsSet == {o \in [fetch : BOOLEAN, check : BOOLEAN, evidence : EvidenceModes,
                   fix : FixModes, notify : NotifyOpts, force : ForceOpts] :
            ValidOpts(o)}

InitRest ==
    /\ cache_content = {}
    /\ cfg_dependency_rerun = FALSE
    /\ staged = {}
    /\ unpushed = {}
    /\ dependency_rerun = <<>>
    /\ pc = "start"
    /\ success = TRUE
    /\ exit_code = NoCode
    /\ todo = {}
    /\ pass_ok = TRUE
    /\ previous = {}
    /\ reruns = {}
    /\ rerun_count = 0
    /\ passes = 0
    /\ dep_failed = {}
    /\ other_error = FALSE
    /\ wrote = {}
    /\ reexecuted = {}
    /\ results = None
    /\ exc = FALSE
    /\ build_failed = FALSE
    /\ push_error = FALSE
    /\ push_log = <<>>
    /\ fix_invoked = {}
    /\ notified = <<>>
    /\ steps = <<>>
    /\ load_errors = {}
    /\ outbound = <<>>

\* The phases the command line asks for; a module of another phase is never
\* imported.
RequestedPhases(o) == (IF o.fetch THEN {"fetch"} ELSE {})
                      \cup (IF o.check THEN {"check"} ELSE {})

\* Every valid command line, with the plain dependency layout: fetch_b
\* depends on the evidence fetch_a stores, each rerun entry names its own
\* fetcher, no evidence is registered in the cache.
Init ==
    /\ opts \in OptsSet
    /\ dep = [f \in Fetchers |-> IF f = FB THEN EA ELSE NoEv]
    /\ via = [f \in Fetchers |-> f]
    /\ evidence_cache = {}
    /\ fresh \in {{}, {EX}}
    /\ broken \in {b \in BrokenOpts : b \subseteq RequestedPhases(opts)}
    /\ slack_mode \in IF \E i \in 1..Len(opts.notify) : opts.notify[i] = "slack"
                      THEN SlackModes ELSE {"normal"}
    /\ InitRest
    /\ CheckRunIdle
    /\ LockerIdle
    /\ PartsIdle

\* Command lines of the rerun study: the fetch phase runs against a remote
\* locker, alone or followed by a check phase with fixers and all notifiers.
RerunOptsSet == {o \in OptsSet : /\ o.fetch
                                 /\ o.evidence = "full-remote"
                                 /\ o.notify = <<"slack", "locker", "stdout">>
                                 /\ o.check => o.fix = "on"}

\* Every dependency layout of the fetchers.
InitRerun ==
    /\ opts \in RerunOptsSet
    /\ dep \in DepOpts
    /\ via \in ViaOpts
    /\ evidence_cache \in CacheOpts
    /\ fresh \in FreshOpts
    /\ broken = {}
    /\ slack_mode = "normal"
    /\ InitRest
    /\ CheckRunIdle
    /\ LockerIdle
    /\ PartsIdle

(***************************************************************************)
(* Fetch phase.                                                            *)
(***************************************************************************)

\* _run: neither phase has started.  With --fetch, FetchMode.__enter__
\* creates the locker and run_fetchers() starts the primary pass with the
\* fetchers get_fetchers could load; the others are on load_errors.
Start ==
    /\ pc = "start"
    /\ IF opts.fetch
       THEN /\ pc' = "fetch_pass"
            /\ todo' = PassFetchers(TRUE, {})
            /\ pass_ok' = TRUE
            /\ load_errors' = load_errors \cup FetchLoadErrors(broken)
       ELSE /\ pc' = "check_enter"
            /\ UNCHANGED <<todo, pass_ok, load_errors>>
    /\ UNCHANGED <<worldVars, libVars, cache_content, cfg_dependency_rerun, fresh, staged,
                   unpushed, dependency_rerun, success, exit_code, previous,
                   reruns, rerun_count, passes, dep_failed,
                   other_error, wrote, reexecuted, checkVars, push_log>>

\* One fetcher method run by the unittest runner (any order: the suite is
\* built from sets).  The method is wrapped by store_raw_evidence
\* (_store_wrapper): a valid target ends the call; otherwise the body runs,
\* first asking for its dependency (get_evidence_dependency), then fetching
\* (which may raise), and the content is stored (Locker.add_evidence).
RunFetcher(f) ==
    /\ pc = "fetch_pass"
    /\ f \in todo
    /\ todo' = todo \ {f}
    /\ reexecuted' = IF passes > 0 THEN reexecuted \cup {f} ELSE reexecuted
    /\ \/ \* the target is valid: nothing to do
          /\ Validate(opts, fresh, Target(f))
          /\ UNCHANGED <<dependency_rerun, dep_failed, pass_ok, other_error,
                         cache_content, fresh, staged, wrote>>
       \/ \* the dependency is unavailable: queue the rerun entry, raise
          /\ ~Validate(opts, fresh, Target(f))
          /\ dep[f] # NoEv
          /\ ~DependencyAvailable(opts, cache_content, fresh, dep[f])
          /\ dependency_rerun' = Append(dependency_rerun, via[f])
          /\ dep_failed' = IF passes = 0 THEN dep_failed \cup {f} ELSE dep_failed
          /\ UNCHANGED <<pass_ok, other_error, cache_content, fresh, staged, wrote>>
       \/ \* the fetch itself raises
          /\ ~Validate(opts, fresh, Target(f))
          /\ dep[f] # NoEv => DependencyAvailable(opts, cache_content, fresh, dep[f])
          /\ pass_ok' = FALSE
          /\ other_error' = TRUE
          /\ UNCHANGED <<dependency_rerun, dep_failed, cache_content, fresh,
                         staged, wrote>>
       \/ \* the content is fetched and stored
          /\ ~Validate(opts, fresh, Target(f))
          /\ dep[f] # NoEv => DependencyAvailable(opts, cache_content, fresh, dep[f])
          /\ cache_content' = IF Target(f) \in evidence_cache
                              THEN cache_content \cup {Target(f)}
                              ELSE cache_content
          /\ fresh' = fresh \cup {Target(f)}
          /\ staged' = staged \cup {Target(f)}
          /\ wrote' = wrote \cup {Target(f)}
          /\ UNCHANGED <<dependency_rerun, dep_failed, pass_ok, other_error>>
    /\ UNCHANGED <<worldVars, libVars, load_errors, cfg_dependency_rerun, unpushed, pc, success,
                   exit_code, previous, reruns, rerun_count, passes,
                   checkVars, push_log>>

\* run_fetchers returns and _run collects the reruns: after the primary pass
\* success is the pass result, previous is empty and rerun_count is 1; after a
\* rerun pass success is and-ed, rerun_count incremented, previous = reruns.
EndPass ==
    /\ pc = "fetch_pass"
    /\ todo = {}
    /\ IF passes = 0
       THEN /\ success' = pass_ok
            /\ previous' = {}
            /\ rerun_count' = 1
       ELSE /\ success' = RerunSuccess(pass_ok, success)
            /\ previous' = reruns
            /\ rerun_count' = rerun_count + 1
    /\ reruns' = get_dependency_reruns(dependency_rerun)
    /\ pc' = "fetch_loop"
    /\ UNCHANGED <<worldVars, libVars, load_errors, cache_content, cfg_dependency_rerun, fresh, staged,
                   unpushed, dependency_rerun, exit_code, todo,
                   pass_ok, passes, dep_failed, other_error, wrote, reexecuted,
                   checkVars, push_log>>

\* The while test of _run.  When it holds, run_fetchers(reruns) starts a
\* rerun pass: config.dependency_rerun is set, the rerun list is reset and
\* the named fetchers are loaded.  When it fails, leftover reruns mark the
\* run failed and the FetchMode context is left.
LoopTest ==
    /\ pc = "fetch_loop"
    /\ IF LoopGuard(reruns, previous, rerun_count)
       THEN /\ cfg_dependency_rerun' = TRUE
            /\ dependency_rerun' = <<>>
            /\ todo' = PassFetchers(FALSE, reruns)
            /\ pass_ok' = TRUE
            /\ passes' = passes + 1
            /\ pc' = "fetch_pass"
            /\ UNCHANGED success
       ELSE /\ success' = LoopEndSuccess(reruns, success)
            /\ pc' = "fetch_exit"
            /\ UNCHANGED <<cfg_dependency_rerun, dependency_rerun, todo,
                           pass_ok, passes>>
    /\ UNCHANGED <<worldVars, libVars, load_errors, cache_content, fresh, staged, unpushed, exit_code,
                   previous, reruns, rerun_count, dep_failed,
                   other_error, wrote, reexecuted, checkVars, push_log>>

\* Locker.checkin: everything staged is committed.
Checkin(st, un) == un \cup st

\* The outcomes of Locker.push on a locker that pushes: accepted or rejected
\* by the remote (LockerPushError).
PushOutcomes == {"accepted", "rejected"}

\* FetchMode.__exit__: checkin, then push unless the check phase follows; a
\* rejected push is logged.
FetchExit ==
    /\ pc = "fetch_exit"
    /\ staged' = {}
    /\ IF FetchExitPushes(opts) /\ DoPush(opts)
       THEN \E out \in PushOutcomes :
              /\ push_log' = Append(push_log, [by |-> "fetch_exit", outcome |-> out])
              /\ unpushed' = IF out = "accepted" THEN {} ELSE Checkin(staged, unpushed)
       ELSE /\ unpushed' = Checkin(staged, unpushed)
            /\ UNCHANGED push_log
    /\ pc' = IF opts.check THEN "check_enter" ELSE "return"
    /\ UNCHANGED <<worldVars, libVars, load_errors, cache_content, fresh, success, exit_code,
                   fetchVars, checkVars>>

\* Time passes: the TTL of an evidence of an earlier invocation runs out
\* (Locker._evidence_ttl_expired compares with the current time).
Expire(e) ==
    /\ pc \in {"fetch_pass", "fetch_loop"}
    /\ e \in fresh \cap Expirable
    /\ fresh' = fresh \ {e}
    /\ UNCHANGED <<worldVars, libVars, load_errors, cache_content, staged, unpushed, pc, success,
                   exit_code, fetchVars, checkVars, push_log>>

(***************************************************************************)
(* Check phase.                                                            *)
(***************************************************************************)

\* CheckMode.__enter__: configuration, controls and a new locker object on
\* the same working tree; results is None.
CheckEnter ==
    /\ pc = "check_enter"
    /\ results' = None
    /\ push_error' = FALSE
    /\ pc' = "check_run"
    /\ UNCHANGED <<worldVars, libVars, load_errors, cache_content, fresh, staged, unpushed, success,
                   exit_code, fetchVars, exc, build_failed, fix_invoked,
                   notified, steps, push_log, outbound>>

\* check.run_checks() inside the CheckMode context.  Either the unittest run
\* completes, results is assigned and success is and-ed with "no errors", or
\* an exception escapes (from get_checks or from the runner) before results
\* is assigned and the context is left with the exception in flight.  The
\* checks get_checks could not load are on load_errors.
RunChecks ==
    /\ pc = "check_run"
    /\ \/ \E res \in ResultMaps :
            /\ results' = res
            /\ success' = CheckSuccess(ChecksOk(res), success)
            /\ load_errors' = load_errors \cup CheckLoadErrors(broken)
            /\ pc' = "check_errs"
            /\ UNCHANGED exc
       \/ /\ exc' = TRUE
          /\ pc' = "check_exit"
          /\ UNCHANGED <<results, success, load_errors>>
    /\ UNCHANGED <<worldVars, libVars, cache_content, fresh, staged, unpushed, exit_code,
                   fetchVars, build_failed, push_error, fix_invoked, notified,
                   steps, push_log, outbound>>

\* The rest of the with body: the load errors are written to stderr, which
\* may itself raise (results is assigned by then).
ReportLoadErrors ==
    /\ pc = "check_errs"
    /\ exc' \in BOOLEAN
    /\ pc' = "check_exit"
    /\ UNCHANGED <<worldVars, libVars, load_errors, cache_content, fresh, staged, unpushed, success,
                   exit_code, fetchVars, results, build_failed, push_error,
                   fix_invoked, notified, steps, push_log, outbound>>

\* CheckMode.__exit__ -> build_reports -> ReportBuilder.build.
\* _get_test_by_class iterates results.items() before the locker context is
\* entered: with results None it raises AttributeError, which is not a
\* LockerPushError and leaves __exit__.  Otherwise the reports are written
\* and staged inside "with self.locker"; the rest of the body may raise.
BuildReports ==
    /\ pc = "check_exit"
    /\ steps' = Append(steps, "build")
    /\ IF results = None
       THEN /\ pc' = "crashed"
            /\ UNCHANGED <<staged, build_failed>>
       ELSE /\ staged' = staged \cup {"reports"}
            /\ build_failed' \in BOOLEAN
            /\ pc' = "locker_exit"
    /\ UNCHANGED <<worldVars, libVars, load_errors, cache_content, fresh, unpushed, success, exit_code,
                   fetchVars, results, exc, push_error, fix_invoked, notified,
                   push_log, outbound>>

\* A handler that goes on to the fixers after a rejected push.
AfterBuildFixesAnyway(out, failed) == IF failed /\ out # "rejected" THEN "crashed" ELSE "fix"

\* CheckMode.__exit__: what follows build_reports, given how the push of
\* Locker.__exit__ ended ("none" when the locker does not push).  A rejected
\* push (LockerPushError) is caught: push_error is set and the fixers are
\* skipped.  Another exception in flight leaves __exit__.
AfterBuild(out, failed) ==
    IF out = "rejected" THEN "notify"
    ELSE IF failed THEN "crashed" ELSE "fix"

\* The except clause of CheckMode.__exit__.
PushErrorAfter(out, perr) == IF out = "rejected" THEN TRUE ELSE perr

\* Locker.__exit__ (end of ReportBuilder.build's with block): checkin, then
\* push when the locker has a remote URL (Locker.push acts when do_push).
LockerExit ==
    /\ pc = "locker_exit"
    /\ staged' = {}
    /\ IF HasRepoUrl(opts) /\ DoPush(opts)
       THEN \E out \in PushOutcomes :
              /\ push_log' = Append(push_log, [by |-> "report", outcome |-> out])
              /\ steps' = Append(steps, "push")
              /\ unpushed' = IF out = "accepted" THEN {} ELSE Checkin(staged, unpushed)
              /\ push_error' = PushErrorAfter(out, push_error)
              /\ pc' = AfterBuild(out, build_failed)
       ELSE /\ unpushed' = Checkin(staged, unpushed)
            /\ pc' = AfterBuild("none", build_failed)
            /\ UNCHANGED <<push_log, steps, push_error>>
    /\ UNCHANGED <<worldVars, libVars, load_errors, cache_content, fresh, success, exit_code,
                   fetchVars, results, exc, build_failed, fix_invoked, notified, outbound>>

\* CheckMode.fix_failures: with --fix on or dry-run the Fixer calls the fix
\* routine of every failed check; a fix routine (user code) may raise, which
\* leaves __exit__.
FixFailures ==
    /\ pc = "fix"
    /\ IF opts.fix # "off"
       THEN /\ steps' = Append(steps, "fix")
            /\ fix_invoked' = FixTargets(results)
            /\ \/ pc' = "notify"
               \/ /\ FixTargets(results) # {}
                  /\ pc' = "crashed"
       ELSE /\ pc' = "notify"
            /\ UNCHANGED <<steps, fix_invoked>>
    /\ UNCHANGED <<worldVars, libVars, load_errors, cache_content, fresh, staged, unpushed, success,
                   exit_code, fetchVars, results, exc, build_failed, push_error,
                   notified, push_log, outbound>>

\* CheckMode.run_notifiers, one iteration: the next requested notifier is
\* constructed with push_error and its notify() is called.
\*  - locker: returns early without results or after a push error; otherwise
\*    writes notifications/alerts_summary.md, commits and pushes; a rejected
\*    push raises LockerPushError out of run_notifiers.
\*  - slack, pagerduty, findings: call their external sink as Outbound
\*    tells; the calls of slack and pagerduty may raise.
\*  - stdout: writes to the stream.
RunNotifier ==
    /\ pc = "notify"
    /\ Len(notified) < Len(opts.notify)
    /\ LET name == opts.notify[Len(notified) + 1] IN
       /\ notified' = Append(notified, [name |-> name, push_error |-> push_error])
       /\ steps' = Append(steps, "notify")
       /\ outbound' = IF Outbound(name, results, push_error)
                      THEN Append(outbound, OutboundCall(name, slack_mode, push_error))
                      ELSE outbound
       /\ IF name = "locker" /\ ~LockerNotifierSkips(results, push_error)
          THEN IF DoPush(opts)
               THEN \E out \in PushOutcomes :
                      /\ push_log' = Append(push_log, [by |-> "locker_notifier",
                                                       outcome |-> out])
                      /\ unpushed' = IF out = "accepted" THEN {}
                                     ELSE unpushed \cup {"notifications"}
                      /\ pc' = IF out = "rejected" THEN "crashed" ELSE "notify"
               ELSE /\ unpushed' = unpushed \cup {"notifications"}
                    /\ pc' = "notify"
                    /\ UNCHANGED push_log
          ELSE /\ IF MayRaise(name) /\ Outbound(name, results, push_error)
                  THEN pc' \in {"notify", "crashed"}
                  ELSE pc' = "notify"
               /\ UNCHANGED <<push_log, unpushed>>
    /\ UNCHANGED <<worldVars, libVars, load_errors, cache_content, fresh, staged, success, exit_code,
                   fetchVars, results, exc, build_failed, push_error, fix_invoked>>

\* run_notifiers and CheckMode.__exit__ return: an exception in flight from
\* the with body propagates out of _run, otherwise _run goes on.
CheckExitDone ==
    /\ pc = "notify"
    /\ Len(notified) = Len(opts.notify)
    /\ pc' = IF exc THEN "crashed" ELSE "return"
    /\ UNCHANGED <<worldVars, libVars, load_errors, cache_content, fresh, staged, unpushed, success,
                   exit_code, fetchVars, checkVars, push_log>>

\* _run returns 0 if success else 1.
Return ==
    /\ pc = "return"
    /\ exit_code' = ExitCode(success)
    /\ pc' = "done"
    /\ UNCHANGED <<worldVars, libVars, load_errors, cache_content, fresh, staged, unpushed, success,
                   fetchVars, checkVars, push_log>>

\* The steps of the program (Expire is the environment's).
Program ==
    \/ Start
    \/ \E f \in Fetchers : RunFetcher(f)
    \/ EndPass
    \/ LoopTest
    \/ FetchExit
    \/ CheckEnter
    \/ RunChecks
    \/ ReportLoadErrors
    \/ BuildReports
    \/ LockerExit
    \/ FixFailures
    \/ RunNotifier
    \/ CheckExitDone
    \/ Return

Next ==
    \/ Start
    \/ \E f \in Fetchers : RunFetcher(f)
    \/ EndPass
    \/ LoopTest
    \/ FetchExit
    \/ \E e \in Evidences : Expire(e)
    \/ CheckEnter
    \/ RunChecks
    \/ ReportLoadErrors
    \/ BuildReports
    \/ LockerExit
    \/ FixFailures
    \/ RunNotifier
    \/ CheckExitDone
    \/ Return

Spec == Init /\ [][Next]_vars

\* The rerun study, and the same with the scheduling of a sequential
\* process: the program takes its next step whenever it has one.
SpecRerun == InitRerun /\ [][Next]_vars
FairSpecRerun == SpecRerun /\ WF_vars(Program)

TypeOK ==
    /\ pc \in {"start", "fetch_pass", "fetch_loop", "fetch_exit", "check_enter",
                "check_run", "check_errs", "check_exit", "locker_exit", "fix",
                "notify", "return", "done", "crashed"}
    /\ success \in BOOLEAN
    /\ exit_code \in {NoCode, 0, 1}
    /\ reruns \subseteq Fetchers
    /\ previous \subseteq Fetchers
    /\ todo \subseteq Fetchers

(***************************************************************************)
(* The unittest run of the check methods.                                  *)
(***************************************************************************)

cliVars == <<worldVars, cache_content, fresh, staged, unpushed, pc, success,
             exit_code, fetchVars, checkVars, push_log, load_errors>>

\* The command line process at rest, while a part of the library is studied
\* on its own.
CliIdle ==
    /\ opts = [fetch |-> TRUE, check |-> TRUE, evidence |-> "no-push",
               fix |-> "off", notify |-> <<"stdout">>, force |-> {}]
    /\ dep = [f \in Fetchers |-> NoEv]
    /\ via = [f \in Fetchers |-> f]
    /\ evidence_cache = {}
    /\ fresh = {}
    /\ broken = {}
    /\ slack_mode = "normal"
    /\ InitRest

\* The suite is loaded, no method has run, the result map is empty.
InitCheckRun ==
    /\ CliIdle
    /\ LockerIdle
    /\ PartsIdle
    /\ suite = Methods
    /\ running = NoMethod
    /\ failures = [m \in Methods |-> 0]
    /\ warnings = [m \in Methods |-> 0]
    /\ ended = [m \in Methods |-> NotRun]
    /\ run_results = EmptyMap

\* TestSuite.run -> ComplianceCheck.run: the next method starts on a new
\* TestCase instance.
StartTest(m) ==
    /\ running = NoMethod
    /\ m \in suite
    /\ suite' = suite \ {m}
    /\ running' = m
    /\ UNCHANGED <<cliVars, partVars, lockerVars, failures, warnings, ended, run_results>>

\* The method body calls add_failures with one failure.
AddFailures ==
    /\ running # NoMethod
    /\ failures[running] < MaxIssues
    /\ failures' = [failures EXCEPT ![running] = @ + 1]
    /\ UNCHANGED <<cliVars, partVars, lockerVars, suite, running, warnings, ended, run_results>>

\* The method body calls add_warnings with one warning.
AddWarnings ==
    /\ running # NoMethod
    /\ warnings[running] < MaxIssues
    /\ warnings' = [warnings EXCEPT ![running] = @ + 1]
    /\ UNCHANGED <<cliVars, partVars, lockerVars, suite, running, failures, ended, run_results>>

\* The method body ends; the wrapper asserts failures_count() == 0 after a
\* normal return; unittest reports the outcome to ComplianceCheckResult,
\* which records the status.
EndTest(e) ==
    /\ running # NoMethod
    /\ ended' = [ended EXCEPT ![running] = e]
    /\ run_results' = Record(run_results, running,
                             Reported(e, failures[running]), warnings[running])
    /\ running' = NoMethod
    /\ UNCHANGED <<cliVars, partVars, lockerVars, suite, failures, warnings>>

NextCheckRun ==
    \/ \E m \in Methods : StartTest(m)
    \/ AddFailures
    \/ AddWarnings
    \/ \E e \in Endings : EndTest(e)

SpecCheckRun == InitCheckRun /\ [][NextCheckRun]_vars

(***************************************************************************)
(* The evidence locker.                                                    *)
(***************************************************************************)

\* A locker object on an empty repository, constructed at tick 0, without
\* tolerance or forced evidence.
InitLocker ==
    /\ CliIdle
    /\ CheckRunIdle
    /\ PartsIdle
    /\ now = 0
    /\ commit_date = isoformat(0)
    /\ ttl_tolerance = 0
    /\ forced_evidence = {}
    /\ tree = {}
    /\ index_json = EmptyMap
    /\ git_index = {}
    /\ git_staged = {}
    /\ added = EmptyMap
    /\ validated = None

\* Time passes.
Tick ==
    /\ now < MaxTime
    /\ now' = now + 1
    /\ UNCHANGED <<cliVars, partVars, checkRunVars, commit_date, ttl_tolerance,
                   forced_evidence, tree, index_json, git_index, git_staged,
                   added, validated>>

\* Locker.__exit__ of the current object (checkin commits what is staged),
\* then Locker.__init__ of the next run's object, a tick later at least.
NewLocker(tol, forced) ==
    /\ now < MaxTime
    /\ now' = now + 1
    /\ commit_date' = isoformat(now + 1)
    /\ ttl_tolerance' = tol
    /\ forced_evidence' = forced
    /\ git_staged' = {}
    /\ added' = EmptyMap
    /\ UNCHANGED <<cliVars, partVars, checkRunVars, tree, index_json, git_index,
                   validated>>

\* The directory of a path and the partition files the tree holds in it.
DirOf(p) == SubSeq(p, 1, Len(p) - 1)
PartitionFilesIn(tr, dir) == {f \in tr : DirOf(f) = dir /\ f[Len(f)] # EvName}

\* index(): the partitioned evidence replaces an unpartitioned file.
ReplacesNothing(ev, tr) == FALSE
Replaces(ev, tr) == ev.is_partitioned /\ path(ev) \in tr

\* An index() that removes no partition.
DeadPartsNone(ev, old_parts, parts) == {}

\* index(): the partitions to remove and tombstone: those no longer part of
\* the content, or all of them when the evidence is no longer partitioned.
DeadParts(ev, old_parts, parts) ==
    IF ev.is_partitioned THEN old_parts \ DOMAIN parts ELSE old_parts

\* An index() that adds the index file alone to the git index.
RepoFilesIndexOnly(ev, parts) == {IndexFile(dir_path(ev))}

\* index(): the files added to the git index: index.json and the evidence
\* file, or the file of each partition.
RepoFiles(ev, parts) ==
    {IndexFile(dir_path(ev))}
    \cup (IF ev.is_partitioned THEN {PartitionFile(ev, h) : h \in DOMAIN parts}
                               ELSE {path(ev)})

\* An index() that forgets the tombstones of the previous entry.
PriorTombstonesDropped(ev_meta) == EmptyMap

\* index(): the tombstones the previous entry holds.
PriorTombstones(ev_meta) == ev_meta.tombstones

\* Locker.index, with remove_partitions and create_tombstone_metadata:
\* the entry is rewritten with last_update = commit_date; files replaced or
\* dead are removed from the git index and the working tree and tombstoned;
\* index.json and the evidence files are added to the git index.  The two
\* create_tombstone_metadata calls of the partitioned branch share the
\* tombstones dictionary of the previous entry when it has one; without one
\* the second call starts from an empty dictionary.
index(ev, parts, tr, idx, gi, gs, cd) ==
    LET dir == dir_path(ev)
        ev_meta == IF dir \in DOMAIN idx THEN idx[dir] ELSE NoEntry
        old_parts == DOMAIN ev_meta.partitions
        prior == PriorTombstones(ev_meta)
        replaced == Replaces(ev, tr)
        t1 == IF replaced
              THEN create_tombstone_metadata(prior, {EvName}, ev_meta, cd,
                                             "Evidence is partitioned")
              ELSE prior
        dead_parts == DeadParts(ev, old_parts, parts)
        t2 == create_tombstone_metadata(IF prior # EmptyMap THEN t1 ELSE EmptyMap,
                                        dead_parts, ev_meta, cd,
                                        "Partition no longer part of evidence")
        tombstones ==
            IF ev.is_partitioned
            THEN IF dead_parts # {} THEN t2 ELSE t1
            ELSE create_tombstone_metadata(prior, dead_parts, ev_meta, cd,
                                           "Evidence no longer partitioned")
        removed == (IF replaced THEN {path(ev)} ELSE {})
                   \cup {PartitionFile(ev, h) : h \in dead_parts}
        repo_files == RepoFiles(ev, parts)
        entry == [last_update |-> cd,
                  is_partitioned |-> ev.is_partitioned,
                  partitions |-> IF ev.is_partitioned THEN parts ELSE EmptyMap,
                  tombstones |-> tombstones]
    IN [tree |-> tr \ removed,
        index_json |-> (dir :> entry) @@ idx,
        git_index |-> (gi \ removed) \cup repo_files,
        git_staged |-> (gs \ removed) \cup repo_files]

\* The tombstone records of the locker number less than the bound.
TombstoneRecords(idx) ==
    UNION {UNION {{<<d, c, i>> : i \in 1..Len(idx[d].tombstones[c])} :
                     c \in DOMAIN idx[d].tombstones} : d \in DOMAIN idx}
TombstoneRoom(idx) == Cardinality(TombstoneRecords(idx)) < MaxTombstones

\* Locker.add_evidence: the content file, or one file per partition key, is
\* written; unless the path starts with "tmp/" the evidence is indexed.
AddEvidence(ev, parts) ==
    /\ TombstoneRoom(index_json)
    /\ added' = (path(ev) :> ev) @@ added
    /\ LET written == IF ev.is_partitioned
                      THEN {PartitionFile(ev, Hash(k)) : k \in ev.partition_keys}
                      ELSE {path(ev)}
           r == index(ev, parts, tree \cup written, index_json, git_index,
                      git_staged, commit_date)
       IN IF StartsWithTmp(path(ev))
          THEN /\ tree' = tree \cup written
               /\ UNCHANGED <<index_json, git_index, git_staged>>
          ELSE /\ tree' = r.tree
               /\ index_json' = r.index_json
               /\ git_index' = r.git_index
               /\ git_staged' = r.git_staged
    /\ UNCHANGED <<cliVars, partVars, checkRunVars, now, commit_date, ttl_tolerance,
                   forced_evidence, validated>>

\* Locker.validate -> _validate_evidence: tmp evidence is valid when its
\* file exists; other evidence is invalid when forced, when the entry has
\* no partitions for a partitioned evidence (KeyError), when a file is
\* missing (ValueError), when the entry is missing (KeyError), when
\* last_update does not parse (ValueError), or when the TTL has run out and
\* is not ignored.
validate(ev, ttl, ignore_ttl, t, tr, idx, forced, tol) ==
    IF ev.type = "tmp" THEN path(ev) \in tr
    ELSE IF path(ev) \in forced THEN FALSE
    ELSE LET dir == dir_path(ev)
             metadata == IF dir \in DOMAIN idx THEN idx[dir] ELSE NoEntry
             paths == IF ev.is_partitioned
                      THEN {PartitionFile(ev, h) : h \in DOMAIN metadata.partitions}
                      ELSE {path(ev)}
         IN IF ev.is_partitioned /\ ~metadata.is_partitioned THEN FALSE
            ELSE IF ~(paths \subseteq tr) THEN FALSE
            ELSE IF dir \notin DOMAIN idx THEN FALSE
            ELSE IF strptime(metadata.last_update) = ParseError THEN FALSE
            ELSE ~(~ignore_ttl /\ TtlExpired(t, strptime(metadata.last_update),
                                             ttl, tol))

\* The evidence objects handed to validate (their content is not read).
ValidateObjects == {e \in EvidenceObjects : e.partition_keys = {}}

\* One call of Locker.validate.
ValidateEvidence(ev, ttl, ignore_ttl) ==
    /\ validated' = [op |-> "validate", ev |-> ev, ttl |-> ttl,
                     ignore_ttl |-> ignore_ttl,
                     result |-> validate(ev, ttl, ignore_ttl, now, tree, index_json,
                                         forced_evidence, ttl_tolerance)]
    /\ UNCHANGED <<cliVars, partVars, checkRunVars, now, commit_date, ttl_tolerance,
                   forced_evidence, tree, index_json, git_index, git_staged, added>>

\* Locker._validate_evidence: the exception it raises, or "ok".
validate_evidence(ev, ttl, ignore_ttl, t, tr, idx, forced, tol) ==
    IF path(ev) \in forced THEN "StaleEvidenceError"
    ELSE LET dir == dir_path(ev)
             metadata == IF dir \in DOMAIN idx THEN idx[dir] ELSE NoEntry
             paths == IF ev.is_partitioned
                      THEN {PartitionFile(ev, h) : h \in DOMAIN metadata.partitions}
                      ELSE {path(ev)}
         IN IF ev.is_partitioned /\ ~metadata.is_partitioned THEN "KeyError"
            ELSE IF ~(paths \subseteq tr) THEN "ValueError"
            ELSE IF dir \notin DOMAIN idx THEN "KeyError"
            ELSE IF strptime(metadata.last_update) = ParseError THEN "ValueError"
            ELSE IF ~ignore_ttl /\ TtlExpired(t, strptime(metadata.last_update), ttl, tol)
                 THEN "StaleEvidenceError"
                 ELSE "ok"

\* Locker.load_content of evidence that is not signed: the exception of
\* _validate_evidence, or the evidence with its content.
load_content(ev, ttl, ignore_ttl, t, tr, idx, forced, tol) ==
    LET v == validate_evidence(ev, ttl, ignore_ttl, t, tr, idx, forced, tol)
    IN IF v = "ok" THEN "evidence" ELSE v

\* One call of Locker.load_content.
LoadContent(ev, ttl, ignore_ttl) ==
    /\ validated' = [op |-> "load_content", ev |-> ev, ttl |-> ttl,
                     ignore_ttl |-> ignore_ttl,
                     result |-> load_content(ev, ttl, ignore_ttl, now, tree, index_json,
                                             forced_evidence, ttl_tolerance)]
    /\ UNCHANGED <<cliVars, partVars, checkRunVars, now, commit_date, ttl_tolerance,
                   forced_evidence, tree, index_json, git_index, git_staged, added>>

\* The evidence of the index study: raw evidence with any partition keys
\* and tmp evidence, of no agent.
IndexEvidences == {e \in EvidenceObjects : e.agent = NoAgent}

\* Bound on the runs that follow the first one in the index study.
MaxLockers == 1

\* The next run of the index study: no tolerance, nothing forced.
NextRun == now < MaxLockers /\ NewLocker(0, {})

\* The locker as its content evolves: runs follow one another and add
\* evidence.
NextLocker ==
    \/ NextRun
    \/ \E ev \in IndexEvidences : \E parts \in PartsOf(ev.partition_keys) :
          AddEvidence(ev, parts)

SpecLocker == InitLocker /\ [][NextLocker]_vars

\* The same locker with any tolerance and forced evidence.
InitTtl ==
    /\ CliIdle
    /\ CheckRunIdle
    /\ PartsIdle
    /\ now = 0
    /\ commit_date = isoformat(0)
    /\ ttl_tolerance \in Tolerances
    /\ forced_evidence \in ForcedSets
    /\ tree = {}
    /\ index_json = EmptyMap
    /\ git_index = {}
    /\ git_staged = {}
    /\ added = EmptyMap
    /\ validated = None

\* The evidence of the validation study: unpartitioned raw evidence and tmp
\* evidence of no agent or of the agent.
TtlEvidences == {e \in EvidenceObjects : ~e.is_partitioned}

\* The locker as evidence is added, ages and is validated.
NextTtl ==
    \/ Tick
    \/ NewLocker(ttl_tolerance, forced_evidence)
    \/ \E ev \in TtlEvidences : \E parts \in PartsOf(ev.partition_keys) :
          AddEvidence(ev, parts)
    \/ \E ev \in ValidateObjects, ttl \in TTLs, ignore_ttl \in BOOLEAN :
          ValidateEvidence(ev, ttl, ignore_ttl)
    \/ \E ev \in ValidateObjects, ttl \in TTLs, ignore_ttl \in BOOLEAN :
          LoadContent(ev, ttl, ignore_ttl)

SpecTtl == InitTtl /\ [][NextTtl]_vars

(***************************************************************************)
(* Retrieval of evidence from the primary locker and its extra lockers.    *)
(***************************************************************************)

\* The primary locker, then the extra lockers in configured order.
LockerLists ==
    {<<p>> \o x : p \in PrimaryStates,
                  x \in UNION {[1..n -> ExtraStates] : n \in 0..MaxExtras}}

\* The study starts a tick after the last_update of the entries that parse.
InitGet ==
    /\ CliIdle
    /\ CheckRunIdle
    /\ now = 1
    /\ commit_date = isoformat(1)
    /\ ttl_tolerance = 0
    /\ forced_evidence = {}
    /\ tree = {}
    /\ index_json = EmptyMap
    /\ git_index = {}
    /\ git_staged = {}
    /\ added = EmptyMap
    /\ validated = None
    /\ lockers \in LockerLists
    /\ ignore_signatures \in BOOLEAN
    /\ got = None
    /\ StudyIdle

\* One call of Locker.get_evidence on the primary locker.
GetEvidence(ignore_ttl, evidence_dt) ==
    /\ got' = [ignore_ttl |-> ignore_ttl, evidence_dt |-> evidence_dt]
               @@ get_evidence(lockers, ignore_ttl, evidence_dt, now, ignore_signatures)
    /\ UNCHANGED <<cliVars, checkRunVars, lockerVars, lockers, ignore_signatures,
                   studyVars>>

\* The lockers as time passes and evidence is asked for.
NextGet ==
    \/ Tick
    \/ \E ignore_ttl \in BOOLEAN, evidence_dt \in Dates :
          GetEvidence(ignore_ttl, evidence_dt)

SpecGet == InitGet /\ [][NextGet]_vars

(***************************************************************************)
(* Threads adding evidence to one directory of the locker.                 *)
(***************************************************************************)

InitConc ==
    /\ CliIdle
    /\ CheckRunIdle
    /\ LockerIdle
    /\ GetIdle
    /\ SlIdle
    /\ LkIdle
    /\ SgIdle
    /\ RtIdle
    /\ ConcIdle
    /\ RegIdle
    /\ DerivedIdle
    /\ PDIdle
    /\ GHIdle

\* add_evidence up to the call of index: the evidence file is written.
\* Threads that run at the same time add distinct evidence.
AddEvidenceCall(t, name, ttl) ==
    /\ th_pc[t] = "idle"
    /\ calls < MaxCalls
    /\ \A u \in Threads : th_pc[u] # "idle" => th_evidence[u].name # name
    /\ calls' = calls + 1
    /\ overlap' = (overlap \/ \E u \in Threads : th_pc[u] # "idle")
    /\ th_evidence' = [th_evidence EXCEPT ![t] = [name |-> name, ttl |-> ttl]]
    /\ dir_files' = dir_files \cup {name}
    /\ th_pc' = [th_pc EXCEPT ![t] = "written"]
    /\ UNCHANGED <<cliVars, checkRunVars, lockerVars, getVars,
                   slVars, lkVars, sgVars, rtVars, ghVars, regVars,
                   derivedVars, pdVars,
                   lock, th_metadata, index_file, repo_index, returned>>

\* index: with self.lock.
IndexAcquire(t) ==
    /\ th_pc[t] = "written"
    /\ lock_acquire(lock)
    /\ lock' = t
    /\ th_pc' = [th_pc EXCEPT ![t] = "locked"]
    /\ UNCHANGED <<cliVars, checkRunVars, lockerVars, getVars,
                   slVars, lkVars, sgVars, rtVars, ghVars, regVars,
                   derivedVars, pdVars,
                   th_evidence, th_metadata, index_file, dir_files, repo_index,
                   returned, calls, overlap>>

\* index: metadata = json.loads(index_file.read_text()), or {} without file.
IndexRead(t) ==
    /\ th_pc[t] = "locked"
    /\ th_metadata' = [th_metadata EXCEPT ![t] = index_file]
    /\ th_pc' = [th_pc EXCEPT ![t] = "read"]
    /\ UNCHANGED <<cliVars, checkRunVars, lockerVars, getVars,
                   slVars, lkVars, sgVars, rtVars, ghVars, regVars,
                   derivedVars, pdVars,
                   lock, th_evidence, index_file, dir_files, repo_index,
                   returned, calls, overlap>>

\* index: metadata[evidence.name] = {last_update, ttl, description}.
IndexUpdate(t) ==
    /\ th_pc[t] = "read"
    /\ th_metadata' = [th_metadata EXCEPT ![t][th_evidence[t].name] =
                          [last_update |-> commit_date, ttl |-> th_evidence[t].ttl]]
    /\ th_pc' = [th_pc EXCEPT ![t] = "updated"]
    /\ UNCHANGED <<cliVars, checkRunVars, lockerVars, getVars,
                   slVars, lkVars, sgVars, rtVars, ghVars, regVars,
                   derivedVars, pdVars,
                   lock, th_evidence, index_file, dir_files, repo_index,
                   returned, calls, overlap>>

\* index: index_file.write_text(format_json(metadata)).
IndexWrite(t) ==
    /\ th_pc[t] = "updated"
    /\ index_file' = th_metadata[t]
    /\ th_pc' = [th_pc EXCEPT ![t] = "flushed"]
    /\ UNCHANGED <<cliVars, checkRunVars, lockerVars, getVars,
                   slVars, lkVars, sgVars, rtVars, ghVars, regVars,
                   derivedVars, pdVars,
                   lock, th_evidence, th_metadata, dir_files, repo_index,
                   returned, calls, overlap>>

\* index: repo.index.add(repo_files), the lock is released, add_evidence
\* returns.
IndexRelease(t) ==
    /\ th_pc[t] = "flushed"
    /\ repo_index' = repo_index \cup {"index.json", th_evidence[t].name}
    /\ lock' = NoThread
    /\ returned' = [returned EXCEPT ![th_evidence[t].name] = th_evidence[t].ttl]
    /\ th_pc' = [th_pc EXCEPT ![t] = "idle"]
    /\ UNCHANGED <<cliVars, checkRunVars, lockerVars, getVars,
                   slVars, lkVars, sgVars, rtVars, ghVars, regVars,
                   derivedVars, pdVars,
                   th_evidence, th_metadata, index_file, dir_files, calls, overlap>>

NextConc ==
    \E t \in Threads :
        \/ \E name \in ConcNames, ttl \in ConcTtls : AddEvidenceCall(t, name, ttl)
        \/ IndexAcquire(t)
        \/ IndexRead(t)
        \/ IndexUpdate(t)
        \/ IndexWrite(t)
        \/ IndexRelease(t)

SpecConc == InitConc /\ [][NextConc]_vars

(***************************************************************************)
(* Registrations in the evidence cache over one invocation of the CLI.     *)
(***************************************************************************)

\* The process starts: get_config() builds the one ComplianceConfig, and
\* _validate_arguments has accepted --fetch, --check or both.
InitReg ==
    /\ CliIdle
    /\ CheckRunIdle
    /\ LockerIdle
    /\ GetIdle
    /\ SlIdle
    /\ LkIdle
    /\ SgIdle
    /\ RtIdle
    /\ ConcIdle
    /\ DerivedIdle
    /\ PDIdle
    /\ GHIdle
    /\ run_args \in {a \in [fetch : BOOLEAN, check : BOOLEAN] : a.fetch \/ a.check}
    /\ run_phase = "start"
    /\ rerun_passes = 0
    /\ config_dependency_rerun = FALSE
    /\ config_evidence_cache = EmptyCache
    /\ registered = None

\* _run: fetch.run_fetchers(), the primary pass.
PrimaryPass ==
    /\ run_phase = "start"
    /\ run_args.fetch
    /\ run_phase' = "primary"
    /\ UNCHANGED <<cliVars, checkRunVars, lockerVars, getVars,
                   slVars, lkVars, sgVars, rtVars, ghVars, concVars,
                   derivedVars, pdVars,
                   run_args, rerun_passes, config_dependency_rerun,
                   config_evidence_cache, registered>>

\* _run: fetch.run_fetchers(reruns), a dependency rerun pass.
RerunPass ==
    /\ run_phase \in {"primary", "rerun"}
    /\ rerun_passes < MaxPasses
    /\ rerun_passes' = rerun_passes + 1
    /\ config_dependency_rerun' = TRUE
    /\ run_phase' = "rerun"
    /\ UNCHANGED <<cliVars, checkRunVars, lockerVars, getVars,
                   slVars, lkVars, sgVars, rtVars, ghVars, concVars,
                   derivedVars, pdVars,
                   run_args, config_evidence_cache, registered>>

\* _run: check.run_checks(), after the fetch phase if there is one.
CheckPhase ==
    /\ run_args.check
    /\ IF run_args.fetch THEN run_phase \in {"primary", "rerun"}
                         ELSE run_phase = "start"
    /\ run_phase' = "check"
    /\ UNCHANGED <<cliVars, checkRunVars, lockerVars, getVars,
                   slVars, lkVars, sgVars, rtVars, ghVars, concVars,
                   derivedVars, pdVars,
                   run_args, rerun_passes, config_dependency_rerun,
                   config_evidence_cache, registered>>

\* _run returns.
RunReturns ==
    /\ IF run_args.check THEN run_phase = "check"
                         ELSE run_phase \in {"primary", "rerun"}
    /\ run_phase' = "end"
    /\ UNCHANGED <<cliVars, checkRunVars, lockerVars, getVars,
                   slVars, lkVars, sgVars, rtVars, ghVars, concVars,
                   derivedVars, pdVars,
                   run_args, rerun_passes, config_dependency_rerun,
                   config_evidence_cache, registered>>

\* A fetcher, a check or an evidences module calls config.add_evidences.
AddEvidences(evidence_list) ==
    /\ run_phase \in {"primary", "rerun", "check"}
    /\ LET r == add_evidences(config_evidence_cache, config_dependency_rerun,
                              evidence_list, 1) IN
         /\ config_evidence_cache' = r.cache
         /\ registered' = [evidence_list |-> evidence_list, raised |-> r.raised,
                           phase |-> run_phase]
    /\ UNCHANGED <<cliVars, checkRunVars, lockerVars, getVars,
                   slVars, lkVars, sgVars, rtVars, ghVars, concVars,
                   derivedVars, pdVars,
                   run_args, run_phase, rerun_passes, config_dependency_rerun>>

NextReg ==
    \/ PrimaryPass
    \/ RerunPass
    \/ CheckPhase
    \/ RunReturns
    \/ \E evidence_list \in RegLists : AddEvidences(evidence_list)

SpecReg == InitReg /\ [][NextReg]_vars

(***************************************************************************)
(* Fetchers that need evidence fetched by another fetcher.                 *)
(***************************************************************************)

InitDerived ==
    /\ CliIdle
    /\ CheckRunIdle
    /\ LockerIdle
    /\ GetIdle
    /\ SlIdle
    /\ LkIdle
    /\ SgIdle
    /\ RtIdle
    /\ ConcIdle
    /\ RegIdle
    /\ PDIdle
    /\ GHIdle
    /\ src_cache \in {"absent", "empty", "content"}
    /\ src_locker \in {"fresh", "stale", "missing", "unreadable"}
    /\ src_cache = "content" => src_locker \in {"fresh", "stale"}
    /\ target_valid \in BOOLEAN
    /\ locker_dependency_rerun = <<>>
    /\ fetched = None

\* A fetcher decorated with store_derived_evidence runs: the wrapper.
StoreDerivedEvidence(f) ==
    /\ IF target_valid
       THEN /\ fetched' = [routine |-> "store_derived_evidence", fetcher |-> f,
                           stack |-> <<>>, outcome |-> "skipped", source |-> "none"]
            /\ UNCHANGED <<src_cache, target_valid>>
       ELSE LET r == get_evidence_by_path(src_cache, src_locker) IN
            /\ src_cache' = r.cached
            /\ IF r.outcome \in {"evidence", "evidence without content"}
               THEN /\ target_valid' = TRUE
                    /\ fetched' = [routine |-> "store_derived_evidence",
                                   fetcher |-> f, stack |-> <<>>,
                                   outcome |-> "stored", source |-> r.outcome]
               ELSE /\ target_valid' = target_valid
                    /\ fetched' = [routine |-> "store_derived_evidence",
                                   fetcher |-> f, stack |-> <<>>,
                                   outcome |-> r.outcome, source |-> "none"]
    /\ UNCHANGED <<cliVars, checkRunVars, lockerVars, getVars,
                   slVars, lkVars, sgVars, rtVars, ghVars, concVars, regVars,
                   pdVars,
                   src_locker, locker_dependency_rerun>>

\* A fetcher that calls get_evidence_dependency for the source runs.
FetchWithDependency(fetcher, stack) ==
    /\ Len(locker_dependency_rerun) < MaxRerunEntries
    /\ LET r == get_evidence_dependency(src_cache, src_locker, fetcher, stack) IN
         /\ locker_dependency_rerun' = locker_dependency_rerun \o r.rerun
         /\ fetched' = [routine |-> "get_evidence_dependency", fetcher |-> fetcher,
                        stack |-> stack, outcome |-> r.outcome, source |-> "none"]
    /\ UNCHANGED <<cliVars, checkRunVars, lockerVars, getVars,
                   slVars, lkVars, sgVars, rtVars, ghVars, concVars, regVars,
                   pdVars,
                   src_cache, src_locker, target_valid>>

\* The fetcher of the source stores it: add_evidence sets the content of the
\* cached object, if there is one, and writes the locker.
FetchSource ==
    /\ src_locker # "fresh"
    /\ src_locker' = "fresh"
    /\ src_cache' = IF src_cache = "empty" THEN "content" ELSE src_cache
    /\ UNCHANGED <<cliVars, checkRunVars, lockerVars, getVars,
                   slVars, lkVars, sgVars, rtVars, ghVars, concVars, regVars,
                   pdVars,
                   target_valid, locker_dependency_rerun, fetched>>

\* Locker.reset_depenency_rerun, at the start of a rerun pass.
ResetDependencyRerun ==
    /\ locker_dependency_rerun # <<>>
    /\ locker_dependency_rerun' = <<>>
    /\ UNCHANGED <<cliVars, checkRunVars, lockerVars, getVars,
                   slVars, lkVars, sgVars, rtVars, ghVars, concVars, regVars,
                   pdVars,
                   src_cache, src_locker, target_valid, fetched>>

NextDerived ==
    \/ \E f \in DerivedFetchers : StoreDerivedEvidence(f)
    \/ \E fetcher \in DerivedFetchers \cup {NoFetcherArg}, stack \in DerivedStacks :
          FetchWithDependency(fetcher, stack)
    \/ FetchSource
    \/ ResetDependencyRerun

SpecDerived == InitDerived /\ [][NextDerived]_vars

(***************************************************************************)
(* The PagerDuty notifier, from the point where the push has not failed.   *)
(***************************************************************************)

InitPD ==
    /\ CliIdle
    /\ CheckRunIdle
    /\ LockerIdle
    /\ GetIdle
    /\ SlIdle
    /\ LkIdle
    /\ SgIdle
    /\ RtIdle
    /\ ConcIdle
    /\ RegIdle
    /\ DerivedIdle
    /\ GHIdle
    /\ pd_config \in [{"a1", "a2"} -> PDConfigs]
    /\ pd_results \in [PDCheckIds -> [status : {"pass", "fail", "warn", "error"},
                                      details : PDDetails]]
    /\ pd_results["c2"].details = "d1"
    /\ pd_alerts \in PDAlertLists
    /\ pd_events = <<>>
    /\ pd_applied = 0
    /\ pd_next = 1
    /\ pd_last = None

\* notify: the turn of the loop for the next accreditation.
NotifyAccreditation ==
    /\ pd_next \in 1..Len(PDAccreds)
    /\ LET accreditation == PDAccreds[pd_next]
           sent == accreditation_events(pd_config[accreditation], pd_alerts,
                                        accreditation, pd_results) IN
         /\ pd_events' = pd_events \o sent
         /\ pd_last' = [accreditation |-> accreditation, listed |-> pd_alerts,
                        sent |-> sent]
    /\ pd_next' = pd_next + 1
    /\ UNCHANGED <<cliVars, checkRunVars, lockerVars, getVars,
                   slVars, lkVars, sgVars, rtVars, ghVars, concVars, regVars,
                   derivedVars, pd_config, pd_results, pd_alerts, pd_applied>>

\* The service acts on the oldest event it has not acted on yet.
PagerDutyApplies ==
    /\ pd_applied < Len(pd_events)
    /\ pd_alerts' = pagerduty_applies(pd_alerts, pd_events[pd_applied + 1])
    /\ pd_applied' = pd_applied + 1
    /\ UNCHANGED <<cliVars, checkRunVars, lockerVars, getVars,
                   slVars, lkVars, sgVars, rtVars, ghVars, concVars, regVars,
                   derivedVars, pd_config, pd_results, pd_events, pd_next, pd_last>>

NextPD ==
    \/ NotifyAccreditation
    \/ PagerDutyApplies

SpecPD == InitPD /\ [][NextPD]_vars

(***************************************************************************)
(* The GitHub issues notifier and the issue of one check over the runs.    *)
(***************************************************************************)

InitGH ==
    /\ CliIdle
    /\ CheckRunIdle
    /\ LockerIdle
    /\ GetIdle
    /\ SlIdle
    /\ LkIdle
    /\ SgIdle
    /\ RtIdle
    /\ ConcIdle
    /\ RegIdle
    /\ DerivedIdle
    /\ PDIdle
    /\ gh_statuses \in {{"fail"}, {"fail", "warn", "error"}, {"pass", "fail"}}
    /\ gh_issue = None
    /\ gh_created = 0
    /\ gh_last = None

\* The notifier treats the check, of the status given, for an accreditation.
NotifyByCheckIssues(accred, status) ==
    /\ gh_issue # None => gh_issue.comments < MaxComments
    /\ gh_created < MaxComments
    /\ LET r == notify_by_check_issues(gh_statuses, gh_issue, accred, status) IN
         /\ gh_issue' = r.issue
         /\ gh_created' = gh_created + r.created
    /\ gh_last' = [accred |-> accred, status |-> status]
    /\ UNCHANGED <<cliVars, checkRunVars, lockerVars, getVars,
                   slVars, lkVars, sgVars, rtVars, concVars, regVars,
                   derivedVars, pdVars, gh_statuses>>

\* Somebody adds a label to the issue or removes one.
EditLabels(label) ==
    /\ gh_issue # None
    /\ gh_issue' = [gh_issue EXCEPT !.labels =
                        IF label \in @ THEN @ \ {label} ELSE @ \cup {label}]
    /\ UNCHANGED <<cliVars, checkRunVars, lockerVars, getVars,
                   slVars, lkVars, sgVars, rtVars, concVars, regVars,
                   derivedVars, pdVars, gh_statuses, gh_created, gh_last>>

\* Somebody closes the issue: the search for open issues finds it no more.
CloseIssue ==
    /\ gh_issue # None
    /\ gh_issue' = None
    /\ UNCHANGED <<cliVars, checkRunVars, lockerVars, getVars,
                   slVars, lkVars, sgVars, rtVars, concVars, regVars,
                   derivedVars, pdVars, gh_statuses, gh_created, gh_last>>

NextGH ==
    \/ \E accred \in GHAccreds, status \in GHStatuses :
          NotifyByCheckIssues(accred, status)
    \/ \E label \in GHLabels : EditLabels(label)
    \/ CloseIssue

SpecGH == InitGH /\ [][NextGH]_vars

(***************************************************************************)
(* Properties.                                                             *)
(***************************************************************************)

Terminated == pc \in {"done", "crashed"}
PushedBy(who) == \E i \in 1..Len(push_log) : push_log[i].by = who
RejectedBy(who) == \E i \in 1..Len(push_log) :
                      push_log[i].by = who /\ push_log[i].outcome = "rejected"
SomeRejected == \E i \in 1..Len(push_log) : push_log[i].outcome = "rejected"
AfterFetchPhase == pc \notin {"start", "fetch_pass", "fetch_loop"}

\* C1: when an exception escapes the check run inside the CheckMode context,
\* the process does not end before everything staged is committed and, on a
\* locker that pushes, the check-phase push has been attempted.
C1_FatalCheckStillCommitsAndPushes ==
    (exc /\ Terminated) =>
        /\ staged = {}
        /\ DoPush(opts) => PushedBy("report")

\* C2: a run in which some push was rejected returns exit code 1.
C2_RejectedPushExitsOne ==
    (pc = "done" /\ SomeRejected) => exit_code = 1

\* C3: when the rerun loop ends with reruns left over, the run is marked
\* failed from then on and _run returns 1, whatever run_checks returns.
C3_UnresolvedRerunsFail ==
    (opts.fetch /\ AfterFetchPhase /\ pc # "fetch_exit" /\ reruns # {}) =>
        /\ ~success
        /\ pc = "done" => exit_code = 1

\* C3 witness: leftover reruns, a check phase without errors, exit code 1.
C3_Witness ==
    /\ pc = "done" /\ opts.fetch /\ opts.check /\ reruns # {}
    /\ results # None /\ DOMAIN results # {} /\ ChecksOk(results)
    /\ exit_code = 1

\* C4: a rerun pass is started only while the collected set is non-empty and
\* differs from the set of the previous pass, at most 100 passes are started,
\* and the loop is always left.
C4_RerunLoopTerminates ==
    /\ [][(pc = "fetch_loop" /\ pc' = "fetch_pass") =>
            (reruns # {} /\ reruns # previous /\ passes < 100)]_vars
    /\ [](passes <= 100)
    /\ [](pc = "fetch_pass" => <>(pc = "fetch_exit"))

\* C4 witness: the loop was left after 100 rerun passes with reruns left.
C4_Witness == pc = "fetch_exit" /\ passes = 100 /\ reruns # {} /\ reruns # previous

\* C5 (as stated): the set collected after a rerun pass holds only fetchers
\* of the set that pass re-executed.
C5_RerunSetNonIncreasing ==
    (pc = "fetch_loop" /\ passes > 0) => reruns \subseteq previous

\* C5 (amended): the set collected after a rerun pass holds only fetchers
\* named by the rerun entries of the fetchers that pass re-executed; it is a
\* subset of the re-executed set when every entry names its own fetcher.
C5_RerunSetNamedByReexecuted ==
    (pc = "fetch_loop" /\ passes > 0) =>
        /\ reruns \subseteq {via[f] : f \in previous}
        /\ (\A f \in previous : via[f] = f) => reruns \subseteq previous

\* C5 witness: a rerun pass of one fetcher out of two left that fetcher queued.
C5_Witness ==
    /\ pc = "fetch_loop" /\ passes > 0
    /\ previous = {FB} /\ via[FB] = FB /\ reruns = {FB}

\* The dependency scenario: fetch_b depends on the evidence fetch_a stores in
\* this run, its rerun entry names itself, it raised DependencyUnavailable in
\* the primary pass, no fetcher raised anything else, no check errored.
C6_Scenario ==
    /\ dep[FA] = NoEv /\ dep[FB] = EA /\ via[FB] = FB
    /\ FB \in dep_failed /\ ~other_error /\ EA \in wrote
    /\ opts.check => (results # None /\ ChecksOk(results))

\* C6: in the dependency scenario fetch_b was re-executed, nothing is left to
\* rerun, at most 2 rerun passes ran and the exit code is 0.
C6_DependencyConverges ==
    (C6_Scenario /\ pc = "done") =>
        /\ FB \in reexecuted
        /\ reruns = {}
        /\ passes <= 2
        /\ exit_code = 0

\* C7: after a rejected push of the report commit no fix routine is called
\* and every notifier is constructed with push_error true; on a locker that
\* pushes, fixers run only after an accepted push.
C7_RejectedPushSkipsFixers ==
    /\ RejectedBy("report") =>
          /\ fix_invoked = {}
          /\ \A i \in 1..Len(steps) : steps[i] # "fix"
          /\ \A i \in 1..Len(notified) : notified[i].push_error
    /\ (DoPush(opts) /\ \E i \in 1..Len(steps) : steps[i] = "fix") =>
          \E i \in 1..Len(push_log) :
              push_log[i].by = "report" /\ push_log[i].outcome = "accepted"

\* C7 witness: fixers requested, a failed check, the push rejected and all
\* notifiers constructed.
C7_Witness ==
    /\ RejectedBy("report") /\ opts.fix = "on"
    /\ results # None /\ FixTargets(results) # {}
    /\ Len(notified) = Len(opts.notify) /\ Len(notified) > 1

\* The order build, push, fixers, notifiers.
StepRank(st) == CASE st = "build" -> 1 [] st = "push" -> 2
                  [] st = "fix" -> 3 [] OTHER -> 4

\* C8: whenever CheckMode.__exit__ has run, its steps happened in the order
\* build, push, fixers, notifiers and every requested notifier was run.
C8_ExitOrderAndNotifiers ==
    (Terminated /\ steps # <<>>) =>
        /\ \A i, j \in 1..Len(steps) : i < j => StepRank(steps[i]) <= StepRank(steps[j])
        /\ Len(notified) = Len(opts.notify)

\* C9: a rejected push is the last push attempt of the run.
C9_RejectedPushNotRetried ==
    \A i \in 1..Len(push_log) :
        push_log[i].outcome = "rejected" => i = Len(push_log)

\* C9 witness: the report push was rejected and the locker notifier ran
\* afterwards without pushing.
C9_Witness ==
    /\ RejectedBy("report") /\ pc = "done"
    /\ \E i \in 1..Len(notified) : notified[i].name = "locker"
    /\ Len(push_log) = 1

\* C10: with both phases the fetch exit commits and does not push, so the
\* first push of the run is the check phase's; with the fetch phase alone on
\* a locker that pushes, the fetch exit makes the one push of the run.
C10_FetchExitPushDeferred ==
    /\ (opts.fetch /\ AfterFetchPhase /\ pc # "fetch_exit") => wrote \cap staged = {}
    /\ (opts.fetch /\ opts.check) =>
          /\ ~PushedBy("fetch_exit")
          /\ push_log # <<>> => push_log[1].by = "report"
          /\ pc = "check_enter" => wrote \subseteq unpushed
    /\ (opts.fetch /\ ~opts.check /\ DoPush(opts) /\ pc \in {"return", "done"}) =>
          /\ Len(push_log) = 1
          /\ push_log[1].by = "fetch_exit"

\* C10 witness: both phases, evidence stored by the fetch phase, first push
\* made by the check phase.
C10_Witness ==
    /\ opts.fetch /\ opts.check /\ wrote # {}
    /\ push_log # <<>> /\ push_log[1].by = "report"

\* C11 (as stated): after a push error no call reaches an external sink
\* from the Slack notifier in compact mode, from the PagerDuty notifier or
\* from the findings notifier.
C11_PushErrorSilencesNotifiers ==
    \A i \in 1..Len(outbound) :
        outbound[i].push_error =>
            /\ outbound[i].name \notin {"pagerduty", "findings"}
            /\ ~(outbound[i].name = "slack" /\ outbound[i].mode = "compact")

\* C11 (amended): after a push error the PagerDuty notifier and the findings
\* notifier make no outbound call; the Slack notifier, in normal and in
\* compact mode alike, still posts, with the push-error notice in place of
\* the check results.
C11_PushErrorSilencesPagingAndFindings ==
    /\ \A i \in 1..Len(outbound) :
          outbound[i].push_error =>
              outbound[i].name = "slack" /\ outbound[i].payload = "push_error"
    /\ \A i \in 1..Len(notified) :
          (notified[i].name = "slack" /\ notified[i].push_error /\ HasMessages(results)) =>
              \E j \in 1..Len(outbound) : outbound[j].name = "slack"

\* C11 witness: after a rejected push the Slack (compact), PagerDuty and
\* findings notifiers all ran on a result map with checks, and the one
\* outbound call is Slack's.
C11_Witness ==
    /\ pc = "done" /\ push_error /\ HasMessages(results) /\ slack_mode = "compact"
    /\ \A n \in {"slack", "pagerduty", "findings"} :
          \E i \in 1..Len(notified) : notified[i].name = n /\ notified[i].push_error
    /\ Len(outbound) = 1 /\ outbound[1].name = "slack"

\* C12: a run in which the fetch runner or the check runner recorded a load
\* error returns exit code 1.
C12_LoadErrorExitsOne ==
    (pc = "done" /\ load_errors # {}) => exit_code = 1

\* The status C13 gives a method by what it accumulated and whether it
\* raised.
StatusAsStated(e, f, w) ==
    IF e # "returned" THEN "error"
    ELSE IF f > 0 THEN "fail"
    ELSE IF w > 0 THEN "warn" ELSE "pass"

\* C13 (as stated): every method that was run has one status in the result
\* map: error if its body raised, otherwise fail with an accumulated
\* failure, warn with a warning and no failure, pass with neither.
C13_StatusByAccumulation ==
    \A m \in Methods :
        ended[m] # NotRun =>
            /\ m \in DOMAIN run_results
            /\ run_results[m] = StatusAsStated(ended[m], failures[m], warnings[m])

\* C13 (amended): a method whose body raised SkipTest has no status; every
\* other method that was run has one status: error if its body raised an
\* exception other than the failure exception, fail if it raised the failure
\* exception or returned with an accumulated failure, warn if it returned
\* with a warning and no failure, pass if it returned with neither.
C13_StatusByOutcome ==
    \A m \in Methods :
        /\ ended[m] \in {NotRun, "skipped"} => m \notin DOMAIN run_results
        /\ ended[m] \in {"returned", "assertion", "exception"} =>
              /\ m \in DOMAIN run_results
              /\ run_results[m] =
                    IF ended[m] = "exception" THEN "error"
                    ELSE IF ended[m] = "assertion" \/ failures[m] > 0 THEN "fail"
                    ELSE IF warnings[m] > 0 THEN "warn" ELSE "pass"

\* C13 witness: one method returned with failures and warnings and is fail,
\* the other returned with warnings only and is warn.
C13_Witness ==
    /\ ended["test_one"] = "returned" /\ failures["test_one"] > 0
    /\ warnings["test_one"] > 0 /\ run_results["test_one"] = "fail"
    /\ ended["test_two"] = "returned" /\ failures["test_two"] = 0
    /\ warnings["test_two"] > 0 /\ run_results["test_two"] = "warn"

\* The files of the evidence last added at path p.
EvidenceFiles(p) ==
    IF added[p].is_partitioned
    THEN {PartitionFile(added[p], Hash(k)) : k \in added[p].partition_keys}
    ELSE {p}

\* The evidence at path p is indexed by this locker object: its entry is in
\* the index.json of its directory with last_update = commit_date, and the
\* index.json and the evidence files are staged.
Indexed(p) ==
    /\ DirOf(p) \in DOMAIN index_json
    /\ index_json[DirOf(p)].last_update = commit_date
    /\ IndexFile(DirOf(p)) \in git_staged
    /\ EvidenceFiles(p) \subseteq git_staged

\* C14 (as stated): every evidence path handed to add_evidence by the
\* locker object of the run is indexed with the run's commit timestamp and
\* staged.
C14_WrittenEvidenceIndexed ==
    \A p \in DOMAIN added : Indexed(p)

\* C14 (amended): every evidence path handed to add_evidence that does not
\* start with tmp/ is indexed with the run's commit timestamp and staged
\* (its partition files when it is partitioned); evidence under tmp/ is
\* written and neither indexed nor staged.
C14_PersistentEvidenceIndexed ==
    \A p \in DOMAIN added :
        IF Head(p) = "tmp"
        THEN /\ p \in tree
             /\ DirOf(p) \notin DOMAIN index_json
             /\ p \notin git_staged
        ELSE Indexed(p)

\* C14 witness: a later run added partitioned raw evidence and tmp evidence.
C14_Witness ==
    /\ now > 0
    /\ \E p \in DOMAIN added : Head(p) = "tmp"
    /\ \E p \in DOMAIN added : added[p].is_partitioned /\ added[p].partition_keys = {K1, K3}

\* C15: when the evidence last added at a path is partitioned with keys K,
\* the partition files of its directory are exactly the files
\* <hash(k)>_<name>, k in K, and the partitions of its index entry have
\* exactly the hashes of K as keys.
C15_PartitionFilesMatchKeys ==
    \A p \in DOMAIN added :
        added[p].is_partitioned =>
            LET hashes == {Hash(k) : k \in added[p].partition_keys} IN
            /\ PartitionFilesIn(tree, DirOf(p)) = {DirOf(p) \o <<PartitionName(h)>> : h \in hashes}
            /\ DirOf(p) \in DOMAIN index_json
            /\ DOMAIN index_json[DirOf(p)].partitions = hashes

\* C15 witness: the partitioned evidence was added again with one key after
\* a partition of its earlier content was removed.
C15_Witness ==
    \E p \in DOMAIN added :
        /\ added[p].is_partitioned /\ added[p].partition_keys = {K3}
        /\ \E c \in DOMAIN index_json[DirOf(p)].tombstones :
              \E i \in 1..Len(index_json[DirOf(p)].tombstones[c]) :
                  index_json[DirOf(p)].tombstones[c][i].reason
                      = "Partition no longer part of evidence"

\* C16: a partition hash that a step takes out of an entry's partitions has
\* afterwards, as the last record under that hash, a tombstone with the
\* last_update the entry had and the partition key the hash stood for.
C16_RemovedPartitionTombstoned ==
    [][\A d \in DOMAIN index_json : \A h \in DOMAIN index_json[d].partitions :
          h \notin DOMAIN index_json'[d].partitions =>
              /\ h \in DOMAIN index_json'[d].tombstones
              /\ LET ts == index_json'[d].tombstones[h] IN
                 /\ ts[Len(ts)].last_update = index_json[d].last_update
                 /\ ts[Len(ts)].partition_key = index_json[d].partitions[h]]_vars

\* C16 witness: a partition added by an earlier run was removed by a later
\* one: its tombstone carries a last_update older than its end of life.
C16_Witness ==
    \E d \in DOMAIN index_json : \E h \in DOMAIN index_json[d].tombstones :
        /\ h # EvName
        /\ \E i \in 1..Len(index_json[d].tombstones[h]) :
              LET r == index_json[d].tombstones[h][i] IN
              /\ r.partition_key \in PartitionKeys
              /\ InstantOf(r.last_update) < InstantOf(r.eol)

\* s is a prefix of t.
IsPrefix(s, t) == Len(s) <= Len(t) /\ \A i \in 1..Len(s) : s[i] = t[i]

\* C17: no step removes a tombstone: every name or hash with tombstones in
\* an entry keeps them, in order, at the head of its list.
C17_TombstonesKept ==
    [][\A d \in DOMAIN index_json : \A c \in DOMAIN index_json[d].tombstones :
          /\ c \in DOMAIN index_json'[d].tombstones
          /\ IsPrefix(index_json[d].tombstones[c], index_json'[d].tombstones[c])]_vars

\* C17 witness: an entry written by a later run than the one that made one
\* of its tombstones, after partitioning was switched on and off.
C17_Witness ==
    \E d \in DOMAIN index_json :
        /\ ~index_json[d].is_partitioned
        /\ EvName \in DOMAIN index_json[d].tombstones
        /\ \E h \in DOMAIN index_json[d].tombstones : h # EvName
        /\ InstantOf(index_json[d].tombstones[EvName][1].eol)
              < InstantOf(index_json[d].last_update)

\* C18: when a step leaves the entry of a raw evidence partitioned while the
\* unpartitioned file was in the working tree, the file is afterwards in
\* neither the working tree nor the git index and the last tombstone under
\* the evidence name has the reason "Evidence is partitioned".
C18_UnpartitionedFileTombstoned ==
    [][\A ev \in RawEvidences :
          (/\ path(ev) \in tree
           /\ dir_path(ev) \in DOMAIN index_json'
           /\ index_json'[dir_path(ev)].is_partitioned) =>
              /\ path(ev) \notin tree'
              /\ path(ev) \notin git_index'
              /\ EvName \in DOMAIN index_json'[dir_path(ev)].tombstones
              /\ LET ts == index_json'[dir_path(ev)].tombstones[EvName] IN
                 ts[Len(ts)].reason = "Evidence is partitioned"]_vars

\* C18 witness: a partitioned entry with partitions on disk, the
\* unpartitioned file gone and tombstoned under the evidence name.
C18_Witness ==
    \E ev \in RawEvidences :
        /\ dir_path(ev) \in DOMAIN index_json
        /\ index_json[dir_path(ev)].is_partitioned
        /\ DOMAIN index_json[dir_path(ev)].partitions # {}
        /\ path(ev) \notin tree /\ path(ev) \notin git_index
        /\ EvName \in DOMAIN index_json[dir_path(ev)].tombstones

\* C19: tmp evidence, of an agent or not, has no index.json in its
\* directory and no path of its directory is staged.
C19_TmpEvidenceOnlyWritesFile ==
    \A ev \in TmpEvidences :
        /\ dir_path(ev) \notin DOMAIN index_json
        /\ \A f \in git_staged : DirOf(f) # dir_path(ev)

\* C20: whenever unforced raw evidence that is in the locker (file and
\* entry) is validated without ignore_ttl, it is valid exactly when its age,
\* now - last_update, is below ttl - tolerance.
C20_ExpiredExactlyAtTtlMinusTolerance ==
    [][\A ev \in ValidateObjects :
          (/\ validated' # validated
           /\ validated'.op = "validate"
           /\ validated'.ev = ev
           /\ ~validated'.ignore_ttl
           /\ ev.type = "raw" /\ ~ev.is_partitioned
           /\ path(ev) \notin forced_evidence
           /\ path(ev) \in tree
           /\ dir_path(ev) \in DOMAIN index_json) =>
              (validated'.result <=>
                  (now - InstantOf(index_json[dir_path(ev)].last_update)
                      < (validated'.ttl - ttl_tolerance) * TicksPerSecond))]_vars

\* C21: whenever evidence whose path is on forced_evidence is validated the
\* result is false, and whenever its content is loaded StaleEvidenceError
\* is raised, whatever its age and ignore_ttl.
C21_ForcedEvidenceAlwaysStale ==
    [][(validated' # validated /\ path(validated'.ev) \in forced_evidence) =>
          /\ validated'.op = "validate" => validated'.result = FALSE
          /\ validated'.op = "load_content" => validated'.result = "StaleEvidenceError"]_vars

\* The result of Locker._get_evidence of locker i for the call that is
\* being made.
OwnResult(i, call) ==
    locker_get_evidence(lockers[i], i, call.ignore_ttl, call.evidence_dt, now,
                        ignore_signatures)
Misses(i, call) == OwnResult(i, call).kind \in missing_errs
Serves(i, call) == OwnResult(i, call).kind = "evidence"
Extras == 2..Len(lockers)

\* C22 (as stated): when the primary locker misses the path and some extra
\* locker can serve it, get_evidence returns the evidence of the first such
\* extra locker, tagged with that locker; when the primary locker does not
\* miss, no extra locker is consulted and evidence is tagged with the
\* primary.
C22_FirstHoldingExtraServes ==
    [][got' # got =>
          /\ (Misses(1, got') /\ \E i \in Extras : Serves(i, got')) =>
                LET first == CHOOSE i \in Extras :
                                 Serves(i, got') /\ \A j \in 2..(i - 1) : ~Serves(j, got')
                IN /\ got'.outcome = OwnResult(first, got')
                   /\ got'.locker = first
          /\ ~Misses(1, got') =>
                /\ got'.consulted = 1
                /\ got'.outcome.kind = "evidence" => got'.locker = 1]_vars

\* C22 (amended): when the primary locker misses the path and some extra
\* locker does not, get_evidence ends with the result of the first extra
\* locker that does not miss: its evidence, tagged with that locker, or the
\* error it raises (stale, invalid or unverified evidence); no later locker
\* is consulted.  When the primary locker does not miss, no extra locker is
\* consulted and evidence is tagged with the primary.
C22_FirstExtraNotMissingDecides ==
    [][got' # got =>
          /\ (Misses(1, got') /\ \E i \in Extras : ~Misses(i, got')) =>
                LET first == CHOOSE i \in Extras :
                                 ~Misses(i, got') /\ \A j \in 2..(i - 1) : Misses(j, got')
                IN /\ got'.outcome = OwnResult(first, got')
                   /\ got'.consulted = first
                   /\ got'.locker = IF Serves(first, got') THEN first ELSE 0
          /\ ~Misses(1, got') =>
                /\ got'.consulted = 1
                /\ got'.outcome = OwnResult(1, got')
                /\ got'.locker = IF Serves(1, got') THEN 1 ELSE 0]_vars

\* C22 witness: the historical version was missing in the primary locker
\* and in the first extra locker and was served by the second.
C22_Witness ==
    /\ got # None /\ Len(lockers) = 3
    /\ got.evidence_dt # NoDate
    /\ lockers[1].hist_entry /\ ~lockers[1].hist_file
    /\ got.outcome.kind = "evidence" /\ got.locker = 3 /\ got.consulted = 3

\* C23 (as stated): when the primary locker misses the path and no extra
\* locker yields it, the caller sees the missing error raised by the
\* primary locker.
C23_FirstMissReraised ==
    [][got' # got =>
          ((Misses(1, got') /\ \A i \in Extras : ~Serves(i, got')) =>
              got'.outcome = OwnResult(1, got'))]_vars

\* C23 (amended): when the primary locker and every extra locker miss the
\* path, the caller sees the missing error raised by the primary locker; an
\* error of another kind raised by an extra locker reaches the caller as it
\* is.
C23_FirstMissReraisedWhenAllMiss ==
    [][got' # got =>
          /\ (\A i \in 1..Len(lockers) : Misses(i, got')) =>
                /\ got'.outcome = OwnResult(1, got')
                /\ got'.outcome.raised_by = 1
                /\ got'.consulted = Len(lockers)
          /\ \A i \in Extras :
                (/\ \A j \in 1..(i - 1) : Misses(j, got')
                 /\ ~Misses(i, got') /\ ~Serves(i, got')) =>
                    got'.outcome = OwnResult(i, got')]_vars

\* C23 witness: the primary locker raised HistoricalEvidenceNotFoundError,
\* two extra lockers without the entry were asked, and the error the caller
\* sees is the one of the primary.
C23_Witness ==
    /\ got # None /\ Len(lockers) = 3
    /\ ~lockers[2].hist_entry /\ ~lockers[3].hist_entry
    /\ got.consulted = 3
    /\ got.outcome.kind = "HistoricalEvidenceNotFoundError"
    /\ got.outcome.raised_by = 1

\* C24: unless signatures are ignored, evidence returned by get_evidence
\* whose index entry, in the version asked for, carries a signature has a
\* signature that verifies against the content returned; and
\* UnverifiedEvidenceError carries the evidence.
C24_ReturnedEvidenceVerified ==
    /\ (got # None /\ got.outcome.kind = "evidence" /\ ~ignore_signatures) =>
          LET signature == get_evidence_metadata(lockers[got.locker],
                                                 got.evidence_dt).signature
          IN signature # NoSig =>
                verify(AgentKey, got.outcome.evidence.content, signature)
    /\ (got # None /\ got.outcome.kind = "UnverifiedEvidenceError") =>
          got.outcome.evidence # None

\* C25: while threads add distinct evidence of one directory at the same
\* time, at most one of them is between reading and writing the directory's
\* index.json, and the index holds an entry, with the TTL given, for every
\* evidence whose add_evidence has returned: no update is lost.
C25_NoLostUpdate ==
    /\ Cardinality({t \in Threads : th_pc[t] \in InIndex}) <= 1
    /\ \A n \in ConcNames :
          /\ returned[n] # NotReturned
          /\ \A t \in Threads : th_pc[t] # "idle" => th_evidence[t].name # n
          => /\ index_file[n] # None
             /\ index_file[n].ttl = returned[n]

\* Two calls ran at the same time and every call has returned, three
\* evidences having been added.
C25_Witness ==
    /\ overlap
    /\ \A t \in Threads : th_pc[t] = "idle"
    /\ \A n \in ConcNames : returned[n] # NotReturned

\* The paths of the cache.
CachedPaths(cache) == {p \in RegPaths : cache[p] # NoObject}

\* C26: no path ever leaves the evidence cache, and outside a dependency
\* rerun pass (in the primary fetch pass and in the check phase) a call of
\* add_evidences that reaches an evidence whose path was cached before the
\* call raises an error and leaves the object cached for that path in place.
C26_DuplicateRejectedOutsideRerun ==
    [][/\ CachedPaths(config_evidence_cache) \subseteq CachedPaths(config_evidence_cache')
       /\ \A evidence_list \in RegLists :
             /\ AddEvidences(evidence_list)
             /\ run_phase # "rerun"
             => \A i \in 1..Len(evidence_list) :
                   LET dup == evidence_list[i].path IN
                   /\ config_evidence_cache[dup] # NoObject
                   /\ \A j \in 1..(i - 1) : registered'.raised # evidence_list[j].path
                   => /\ registered'.raised # "none"
                      /\ config_evidence_cache'[dup] = config_evidence_cache[dup]
      ]_vars

\* C27: when a fetcher decorated with store_derived_evidence runs, its
\* target is not valid and its source, not held with content by the cache,
\* is stale or missing in the locker, the call raises
\* DependencyUnavailableError and exactly one rerun entry, naming that
\* fetcher, is appended to the locker's dependency_rerun list.
C27_DerivedFetcherQueuedForRerun ==
    [][\A f \in DerivedFetchers :
          /\ StoreDerivedEvidence(f)
          /\ ~target_valid
          /\ src_cache # "content"
          /\ src_locker \in {"stale", "missing"}
          => /\ fetched'.outcome = "DependencyUnavailableError"
             /\ locker_dependency_rerun' = Append(locker_dependency_rerun, f)
      ]_vars

\* The events of the last accreditation treated that carry a check id.
SentFor(c) == SelectSeq(pd_last.sent, LAMBDA e : e.check = c)

\* The check fails or errors and is in scope of the accreditation treated last.
FailingInScope(c) ==
    /\ pd_last # None
    /\ pd_config[pd_last.accreditation].present
    /\ pd_last.accreditation \in PDAccreditations(c)
    /\ pd_results[c].status \in {"fail", "error"}
    /\ in_scope(pd_config[pd_last.accreditation], c)

\* The alerts of a check that the service listed, oldest first.
ListedFor(c) == SelectSeq(pd_last.listed, LAMBDA a : a.test = c)

\* C28 as stated: for a failing or erroring check in scope, no event is sent
\* when some open alert of the check id has the same body, and exactly one
\* trigger keyed by the check id is sent when no alert of the check id is
\* open.
C28_NoEventWhenSomeAlertIdentical ==
    \A c \in PDCheckIds :
        FailingInScope(c) =>
            /\ (\E i \in 1..Len(ListedFor(c)) :
                    ListedFor(c)[i].details = pd_results[c].details)
               => SentFor(c) = <<>>
            /\ ListedFor(c) = <<>>
               => SentFor(c) = trigger_alert(c, pd_last.accreditation,
                                             pd_results[c].details)

\* C28 amended: for a failing or erroring check in scope of an accreditation
\* the notifier treats, no event is sent when the most recently created open
\* alert of the check id has the same body, and exactly one trigger keyed by
\* the check id is sent when no alert of the check id is open.
C28_NoEventWhenLatestAlertIdentical ==
    \A c \in PDCheckIds :
        FailingInScope(c) =>
            /\ /\ ListedFor(c) # <<>>
               /\ ListedFor(c)[Len(ListedFor(c))].details = pd_results[c].details
               => SentFor(c) = <<>>
            /\ ListedFor(c) = <<>>
               => SentFor(c) = trigger_alert(c, pd_last.accreditation,
                                             pd_results[c].details)

\* In one turn a failing check with an identical open alert got no event and
\* a failing check without alert got its trigger.
C28_Witness ==
    /\ FailingInScope("c1")
    /\ FailingInScope("c2")
    /\ ListedFor("c1") # <<>>
    /\ ListedFor("c1")[Len(ListedFor("c1"))].details = pd_results["c1"].details
    /\ SentFor("c1") = <<>>
    /\ ListedFor("c2") = <<>>
    /\ Len(SentFor("c2")) = 1

\* C29 as stated: when a failing or erroring check in scope has an open alert
\* whose body differs from the current one, exactly one resolve and then
\* exactly one trigger are sent for the check id.
C29_UpdateWhenSomeAlertDiffers ==
    \A c \in PDCheckIds :
        /\ FailingInScope(c)
        /\ \E i \in 1..Len(ListedFor(c)) :
              ListedFor(c)[i].details # pd_results[c].details
        => SentFor(c) = resolve_alert(c, pd_last.accreditation)
                        \o trigger_alert(c, pd_last.accreditation,
                                         pd_results[c].details)

\* The events sent so far have all been acted on by the service.
PDSettled == pd_applied = Len(pd_events)

\* C29 amended: when the most recently created open alert of a failing or
\* erroring check in scope has a body that differs from the current one,
\* exactly one resolve and then exactly one trigger are sent for the check
\* id; and once the service has acted on the events in the order sent, the
\* one open alert of the check id has the new body.
C29_UpdateWhenLatestAlertDiffers ==
    \A c \in PDCheckIds :
        /\ FailingInScope(c)
        /\ ListedFor(c) # <<>>
        /\ ListedFor(c)[Len(ListedFor(c))].details # pd_results[c].details
        => /\ SentFor(c) = resolve_alert(c, pd_last.accreditation)
                           \o trigger_alert(c, pd_last.accreditation,
                                            pd_results[c].details)
           /\ PDSettled
              => SelectSeq(pd_alerts, LAMBDA a : a.test = c)
                 = <<[test |-> c, details |-> pd_results[c].details]>>

\* An alert with another body was listed for a failing check, the resolve
\* and the trigger were sent and the service has acted on both.
C29_Witness ==
    /\ FailingInScope("c1")
    /\ ListedFor("c1") # <<>>
    /\ ListedFor("c1")[Len(ListedFor("c1"))].details # pd_results["c1"].details
    /\ Len(SentFor("c1")) = 2
    /\ PDSettled
    /\ pd_next > Len(PDAccreds)

\* The notifier treats a check of this status under this configuration.
GHTreated(statuses, status) ==
    status \in statuses \/ ("pass" \notin statuses /\ status = "pass")

\* C30: when the notifier treats a check whose issue exists, no issue is
\* created, one comment is added, and afterwards the issue carries exactly
\* one run status label, that of the check's current status, whatever its
\* labels were.
C30_OneRunStatusLabelAfterUpdate ==
    [][\A accred \in GHAccreds, status \in GHStatuses :
          /\ NotifyByCheckIssues(accred, status)
          /\ gh_issue # None
          /\ GHTreated(gh_statuses, status)
          => /\ gh_created' = gh_created
             /\ gh_issue'.comments = gh_issue.comments + 1
             /\ {label \in gh_issue'.labels : label.kind = "run status: "}
                = {[kind |-> "run status: ", value |-> status]}
      ]_vars

\* The entry that names the caller of get_evidence_dependency: the fetcher
\* given as argument, else the nearest fetch_ method on the stack.
CallingFetcher(fetcher, stack) ==
    IF fetcher # NoFetcherArg THEN fetcher
    ELSE LET callers == SelectSeq(stack, LAMBDA fr : StartsWithFetch(fr.function)) IN
         [module |-> callers[1].module, class |-> callers[1].class,
          method |-> callers[1].function]

StoreEvidences == {[type |-> "raw", agent |-> a, is_partitioned |-> FALSE,
                    partition_keys |-> {}] : a \in {NoAgent, Agent}}

\* What the wrapped function does when it runs: it returns content or raises.
FetchBodies == {"content", "raises"}
\* What the with block does with the evidence it is given: it sets content,
\* raises, or leaves without setting content.
WithBodies == {"content", "raises", "no content"}

\* The test of _store_wrapper and of _EvidenceContextManager.__enter__: the
\* fetch is skipped when Locker.validate returns True.
skips_fetch_never(valid) == FALSE
skips_fetch(valid) == valid

\* Locker.add_evidence for unpartitioned raw evidence with content: the
\* file is written and the evidence is indexed.
add_evidence(ev, tr, idx, gi, gs, cd) ==
    index(ev, EmptyMap, tr \cup {path(ev)}, idx, gi, gs, cd)

\* A fetcher decorated with store_raw_evidence runs once.
StoreRawEvidence(ev, ttl, body) ==
    LET valid == validate(ev, ttl, FALSE, now, tree, index_json, forced_evidence,
                          ttl_tolerance)
        r == add_evidence(ev, tree, index_json, git_index, git_staged, commit_date)
    IN /\ validated' = [op |-> "store_raw_evidence", ev |-> ev, ttl |-> ttl,
                        ignore_ttl |-> FALSE, result |-> valid,
                        body |-> IF skips_fetch(valid) THEN "not run" ELSE body]
       /\ IF skips_fetch(valid) \/ body = "raises"
          THEN UNCHANGED <<tree, index_json, git_index, git_staged, added>>
          ELSE /\ added' = (path(ev) :> ev) @@ added
               /\ tree' = r.tree
               /\ index_json' = r.index_json
               /\ git_index' = r.git_index
               /\ git_staged' = r.git_staged
       /\ UNCHANGED <<cliVars, partVars, checkRunVars, now, commit_date,
                      ttl_tolerance, forced_evidence>>

\* A with block of the raw_evidence context manager runs once: __enter__
\* yields None for valid evidence and the evidence otherwise, __exit__ adds
\* the evidence when the block did not raise; add_evidence raises ValueError
\* for evidence without content.
RawEvidenceContext(ev, ttl, body) ==
    LET valid == validate(ev, ttl, FALSE, now, tree, index_json, forced_evidence,
                          ttl_tolerance)
        r == add_evidence(ev, tree, index_json, git_index, git_staged, commit_date)
    IN /\ validated' = [op |-> "raw_evidence", ev |-> ev, ttl |-> ttl,
                        ignore_ttl |-> FALSE, result |-> valid,
                        body |-> IF skips_fetch(valid) THEN "not run" ELSE body]
       /\ IF skips_fetch(valid) \/ body # "content"
          THEN UNCHANGED <<tree, index_json, git_index, git_staged, added>>
          ELSE /\ added' = (path(ev) :> ev) @@ added
               /\ tree' = r.tree
               /\ index_json' = r.index_json
               /\ git_index' = r.git_index
               /\ git_staged' = r.git_staged
       /\ UNCHANGED <<cliVars, partVars, checkRunVars, now, commit_date,
                      ttl_tolerance, forced_evidence>>

\* Fetchers run against a locker of any tolerance and forced evidence while
\* the evidence ages, and checks read the evidence; the lockers of a run's
\* fetch phase and check phase, and of later runs with the same --force
\* paths, follow one another (init_locker puts the paths on each).
NextStore ==
    \/ Tick
    \/ NewLocker(ttl_tolerance, forced_evidence)
    \/ \E ev \in StoreEvidences, ttl \in TTLs, body \in FetchBodies :
          StoreRawEvidence(ev, ttl, body)
    \/ \E ev \in StoreEvidences, ttl \in TTLs, body \in WithBodies :
          RawEvidenceContext(ev, ttl, body)
    \/ \E ev \in StoreEvidences, ttl \in TTLs : LoadContent(ev, ttl, FALSE)

SpecStore == InitTtl /\ [][NextStore]_vars

\* The locker's working tree, index and staging area hold the evidence as
\* added at the commit date of the step.
StoredNow(ev) ==
    /\ path(ev) \in tree'
    /\ path(ev) \in git_staged'
    /\ dir_path(ev) \in DOMAIN index_json'
    /\ index_json'[dir_path(ev)].last_update = commit_date
    /\ path(ev) \in DOMAIN added'

RtRecords == [f1 : {"a", "ab"}, f2 : {"bc", "c"}]
MaxRecords == 2
RtLists == UNION {[1..n -> RtRecords] : n \in 0..MaxRecords}

\* JSON documents: a list of records, or an object holding the list under
\* "root" next to other content; json.dumps(None) is null.
NoRoot == ""
RtDocs == {[kind |-> k, items |-> l] : k \in {"list", "dict"}, l \in RtLists}
NullDoc == [kind |-> "null", items |-> <<>>]

\* The partition argument of RawEvidence: no fields (unpartitioned), or the
\* fields whose values make the key; the root is the path to the list.
NoFields == <<>>
RtFields == {NoFields, <<"f1">>, <<"f1", "f2">>}
RtEvidence(doc, fields) ==
    [content |-> doc, part_fields |-> fields,
     part_root |-> IF doc.kind = "dict" THEN "root" ELSE NoRoot]

\* RawEvidence.is_partitioned (the extension is json).
is_partitioned(ev) == ev.part_fields # NoFields

\* RawEvidence.partition_keys: the set of the key tuples of the records.
partition_keys(ev) ==
    {[i \in 1..Len(ev.part_fields) |-> ev.content.items[n][ev.part_fields[i]]] :
        n \in 1..Len(ev.content.items)}

\* RawEvidence._partition and get_partition: the document with its list cut
\* down to the records that have the key's value in every field.
partition(data, key, fields) ==
    SelectSeq(data, LAMBDA d : \A i \in 1..Len(fields) : d[fields[i]] = key[i])
get_partition(ev, key) ==
    [ev.content EXCEPT !.items = partition(ev.content.items, key, ev.part_fields)]

\* get_sha256_hash(key, 10): the hash object is updated with str(part) of
\* each part in turn, so the digest is that of the concatenation.
get_sha256_hash(key) == IF Len(key) = 2 THEN Hash(key) ELSE "sha_" \o key[1]

\* The orders in which a set can be iterated.
Orders(S) == {s \in [1..Cardinality(S) -> S] : \A i, j \in DOMAIN s : i # j => s[i] # s[j]}

\* Locker.add_evidence, partitioned branch: one write_text per key, in the
\* order of partition_keys; index() fills parts[hash] = key in that order.
RECURSIVE write_partitions(_, _, _, _)
write_partitions(files, ev, order, i) ==
    IF i > Len(order) THEN files
    ELSE write_partitions((get_sha256_hash(order[i]) :> get_partition(ev, order[i]))
                              @@ files, ev, order, i + 1)
RECURSIVE index_partitions(_, _, _)
index_partitions(parts, order, i) ==
    IF i > Len(order) THEN parts
    ELSE index_partitions((get_sha256_hash(order[i]) :> order[i]) @@ parts, order,
                          i + 1)

\* The files of the tree but those named.
Without(files, names) == [f \in DOMAIN files \ names |-> files[f]]

\* The study starts with the document a fetcher obtained and an empty locker.
InitRt ==
    /\ CliIdle
    /\ CheckRunIdle
    /\ LockerIdle
    /\ GetIdle
    /\ SlIdle
    /\ LkIdle
    /\ SgIdle
    /\ ConcIdle
    /\ RegIdle
    /\ DerivedIdle
    /\ PDIdle
    /\ GHIdle
    /\ rt_doc \in RtDocs
    /\ rt_added = None
    /\ rt_tree = <<>>
    /\ rt_index = None
    /\ rt_dirty = FALSE
    /\ rt_commits = <<>>
    /\ rt_got = None

\* The document, or the document without its last record.
Shorter(doc) == IF doc.items = <<>> THEN doc
                ELSE [doc EXCEPT !.items = SubSeq(doc.items, 1, Len(doc.items) - 1)]

\* Locker.add_evidence and index() for the evidence of the study: the
\* partition files or the single file are written, the files of partitions
\* no longer in the content and the file replaced are removed, and the
\* entry records fields, root and partitions.
RtAddEvidence(doc, fields, order) ==
    LET ev == RtEvidence(doc, fields)
        old_parts == IF rt_index = None THEN {} ELSE DOMAIN rt_index.partitions
        parts == index_partitions(<<>>, order, 1)
    IN /\ rt_added' = ev
       /\ rt_dirty' = TRUE
       /\ IF is_partitioned(ev)
          THEN /\ rt_tree' = Without(write_partitions(rt_tree, ev, order, 1),
                                     {EvName} \cup (old_parts \ DOMAIN parts))
               /\ rt_index' = [partition_fields |-> fields,
                               partition_root |-> ev.part_root,
                               partitions |-> parts]
          ELSE /\ rt_tree' = Without((EvName :> doc) @@ rt_tree, old_parts)
               /\ rt_index' = [partition_fields |-> NoFields,
                               partition_root |-> NoRoot,
                               partitions |-> <<>>]
       /\ UNCHANGED <<cliVars, checkRunVars, lockerVars, getVars,
                      slVars, lkVars, sgVars, concVars, regVars, derivedVars,
                      pdVars, ghVars,
                      rt_doc, rt_commits, rt_got>>

\* Locker.checkin on the next day: what was added is committed.
MaxCommits == 2
RtCheckin ==
    /\ rt_dirty
    /\ Len(rt_commits) < MaxCommits
    /\ rt_commits' = Append(rt_commits, [tree |-> rt_tree, index |-> rt_index])
    /\ rt_dirty' = FALSE
    /\ UNCHANGED <<cliVars, checkRunVars, lockerVars, getVars,
                   slVars, lkVars, sgVars, concVars, regVars, derivedVars,
                   pdVars, ghVars,
                   rt_doc, rt_added, rt_tree, rt_index, rt_got>>

\* Locker._validate_evidence (ignoring the TTL): the entry and the files
\* looked at are those of the working tree.
rt_validate_evidence(ev, files, entry) ==
    IF is_partitioned(ev) /\ (entry = None \/ entry.partition_fields = NoFields)
    THEN "KeyError"
    ELSE IF ~((IF is_partitioned(ev) THEN DOMAIN entry.partitions ELSE {EvName})
                 \subseteq DOMAIN files)
    THEN "ValueError"
    ELSE IF entry = None THEN "KeyError"
    ELSE "ok"

\* The order of the keys of the partitions dictionary of an index file
\* (format_json sorts the keys).
HashOrder(S) == CHOOSE s \in Orders(S) : TRUE

\* Locker.load_content of validated evidence, the entry and the files being
\* those of the working tree or of the commit asked for: the first
\* partition's document, its list extended with the lists of the others;
\* without partitions the content stays None and is dumped as null.
RECURSIVE extend(_, _, _, _)
extend(content, files, hashes, i) ==
    IF i > Len(hashes) THEN content
    ELSE extend(IF content = None THEN files[hashes[i]]
                ELSE [content EXCEPT !.items = @ \o files[hashes[i]].items],
                files, hashes, i + 1)
rt_load_content(ev, files, entry) ==
    IF is_partitioned(ev)
    THEN LET content == extend(None, files, HashOrder(DOMAIN entry.partitions), 1)
         IN IF content = None THEN NullDoc ELSE content
    ELSE files[EvName]

\* Locker._get_evidence with the entry and files read from (tree, entry) and
\* validated against (vtree, ventry).
rt_get_evidence(files, entry, vtree, ventry) ==
    IF entry = None
    THEN [outcome |-> "EvidenceNotFoundError", content |-> NullDoc]
    ELSE LET ev == [content |-> NullDoc, part_fields |-> entry.partition_fields,
                    part_root |-> entry.partition_root]
             valid == rt_validate_evidence(ev, vtree, ventry)
         IN IF valid # "ok" THEN [outcome |-> valid, content |-> NullDoc]
            ELSE [outcome |-> "ok", content |-> rt_load_content(ev, files, entry)]

\* Locker.get_evidence(path, ignore_ttl=True, evidence_dt=d); day 0 stands
\* for no evidence_dt, day d for the day of the d-th commit.
Today == 0
RtGetEvidence(d) ==
    /\ rt_index # None
    /\ LET files == IF d = Today THEN rt_tree ELSE rt_commits[d].tree
           entry == IF d = Today THEN rt_index ELSE rt_commits[d].index
       IN rt_got' = [d |-> d] @@ rt_get_evidence(files, entry, rt_tree, rt_index)
    /\ UNCHANGED <<cliVars, checkRunVars, lockerVars, getVars,
                   slVars, lkVars, sgVars, concVars, regVars, derivedVars,
                   pdVars, ghVars,
                   rt_doc, rt_added, rt_tree, rt_index, rt_dirty, rt_commits>>

NextRt ==
    \/ \E doc \in {rt_doc, Shorter(rt_doc)}, fields \in RtFields :
          \E order \in Orders(partition_keys(RtEvidence(doc, fields))) :
             RtAddEvidence(doc, fields, order)
    \/ RtCheckin
    \/ \E d \in {Today} \cup (1..Len(rt_commits)) : RtGetEvidence(d)

SpecRt == InitRt /\ [][NextRt]_vars

\* The two lists hold the same records the same number of times.
SameRecords(a, b) ==
    \A r \in RtRecords : Cardinality({i \in DOMAIN a : a[i] = r})
                         = Cardinality({i \in DOMAIN b : b[i] = r})

\* C33: get_evidence after add_evidence of partitioned evidence and checkin
\* returns a document of the kind added whose list holds exactly the records
\* added.
C33_PartitionedRoundTrip ==
    [][(RtGetEvidence(Today) /\ rt_added # None /\ is_partitioned(rt_added)
           /\ ~rt_dirty)
       => /\ rt_got'.outcome = "ok"
          /\ rt_got'.content.kind = rt_added.content.kind
          /\ SameRecords(rt_got'.content.items, rt_added.content.items)
      ]_vars

\* C34: get_evidence as of the day of a commit returns what get_evidence
\* returned of the locker as committed, whatever the working tree has become.
C34_HistoricalReadIgnoresWorkingTree ==
    [][\A d \in 1..Len(rt_commits) :
          RtGetEvidence(d)
          => rt_got' = [d |-> d] @@ rt_get_evidence(rt_commits[d].tree,
                                                    rt_commits[d].index,
                                                    rt_commits[d].tree,
                                                    rt_commits[d].index)
      ]_vars

\* C40: the partition keys of the evidence added have pairwise distinct
\* hashes, so each has a file and an index entry of its own.
C40_DistinctKeysDistinctFiles ==
    rt_added # None /\ is_partitioned(rt_added)
    => \A k1, k2 \in partition_keys(rt_added) :
          k1 # k2 => get_sha256_hash(k1) # get_sha256_hash(k2)

\* The last operation on the locker was a fetcher's that stored the evidence.
JustStored(ev) ==
    /\ validated # None
    /\ validated.op \in {"store_raw_evidence", "raw_evidence"}
    /\ validated.ev = ev
    /\ validated.body = "content"

\* C35: evidence on forced_evidence that a fetcher has just fetched again
\* and added, and whose TTL has not run out, is read by the locker of the
\* fetch phase or of the check phase without StaleEvidenceError.
C35_ForcedEvidenceReadAfterRefetch ==
    [][\A ev \in StoreEvidences, ttl \in TTLs :
          (/\ LoadContent(ev, ttl, FALSE)
           /\ path(ev) \in forced_evidence
           /\ JustStored(ev)
           /\ validate(ev, ttl, FALSE, now, tree, index_json, {}, ttl_tolerance))
          => validated'.result = "evidence"
      ]_vars

(***************************************************************************)
(* The content, digest and signature of one evidence object.               *)
(***************************************************************************)

\* An agent without private key; content, digest and signature None.
NoKey == "none"
NoContent == "None"
NoDigest == "None"

\* Texts handed to set_content, and format_json(json.loads(text)).
SgTexts == {"[1]", "[ 1 ]", "[2]"}
format_json_loads(text) == IF text = "[2]" THEN "[\n  2\n]" ELSE "[\n  1\n]"

\* hashlib.sha256(data).hexdigest().
hexdigest(data) == "sha256 of " \o data

\* ComplianceAgent.hash_and_sign as set_content uses it: (None, None) for an
\* agent that cannot sign.
SgHashAndSign(key, data) ==
    IF key = NoKey THEN [digest |-> NoDigest, signature |-> NoSig]
    ELSE [digest |-> hexdigest(data), signature |-> hash_and_sign(key, data)]

\* _BaseEvidence.__init__: no content, digest or signature.
InitSg ==
    /\ CliIdle
    /\ CheckRunIdle
    /\ LockerIdle
    /\ GetIdle
    /\ SlIdle
    /\ LkIdle
    /\ ConcIdle
    /\ RegIdle
    /\ DerivedIdle
    /\ PDIdle
    /\ GHIdle
    /\ RtIdle
    /\ sg_agent \in {NoKey, AgentKey}
    /\ sg_extension \in {"json", "txt"}
    /\ sg_content = NoContent
    /\ sg_digest = NoDigest
    /\ sg_signature = NoSig
    /\ sg_index = None

\* _BaseEvidence.set_content(content, sign).
SetContent(content, sign) ==
    LET stored == IF content # NoContent /\ sg_extension = "json"
                  THEN format_json_loads(content) ELSE content
        signed == SgHashAndSign(sg_agent, stored)
    IN /\ sg_content' = stored
       /\ IF content # NoContent /\ sign
          THEN /\ sg_digest' = signed.digest
               /\ sg_signature' = signed.signature
          ELSE UNCHANGED <<sg_digest, sg_signature>>
       /\ UNCHANGED <<cliVars, checkRunVars, lockerVars, getVars,
                      slVars, lkVars, concVars, regVars, derivedVars, pdVars,
                      ghVars, rtVars,
                      sg_agent, sg_extension, sg_index>>

\* Locker.add_evidence -> index(): the content is written and the entry gets
\* digest and signature when the evidence has a signature.
SgAddEvidence ==
    /\ sg_content # NoContent
    /\ sg_index' = [content |-> sg_content,
                    digest |-> IF sg_signature # NoSig THEN sg_digest ELSE NoDigest,
                    signature |-> sg_signature]
    /\ UNCHANGED <<cliVars, checkRunVars, lockerVars, getVars,
                   slVars, lkVars, concVars, regVars, derivedVars, pdVars,
                   ghVars, rtVars,
                   sg_agent, sg_extension, sg_content, sg_digest, sg_signature>>

NextSg ==
    \/ \E content \in SgTexts \cup {NoContent}, sign \in BOOLEAN :
          SetContent(content, sign)
    \/ SgAddEvidence

SpecSg == InitSg /\ [][NextSg]_vars

\* C36: a digest or signature the evidence holds is that of its content, and
\* a digest or signature of the index entry is that of the content written
\* with it.
C36_DigestAndSignatureOfCurrentContent ==
    /\ sg_digest # NoDigest => sg_digest = hexdigest(sg_content)
    /\ sg_signature # NoSig => sg_signature = hash_and_sign(sg_agent, sg_content)
    /\ sg_index # None
       => /\ sg_index.digest # NoDigest => sg_index.digest = hexdigest(sg_index.content)
          /\ sg_index.signature # NoSig
             => sg_index.signature = hash_and_sign(sg_agent, sg_index.content)

(***************************************************************************)
(* The operations of the primary locker and the extra lockers that take    *)
(* Locker.lock, called by concurrent threads.                              *)
(***************************************************************************)

\* Locker.lock is a class attribute: one threading.Lock for every locker.
LkLockers == {"primary", "extra"}

\* The operations whose body is `with self.lock:`.
LockedOps == {"index", "get_latest_commit", "head_commit_hexsha"}

\* The methods of Locker a with block calls, directly or through them:
\* index() calls get_index_file (-> get_index_file_by_path), get_file,
\* create_tombstone_metadata and remove_partitions; the two others call
\* the git repository only.
called_under_lock_nested(op) == {"get_latest_commit"}
called_under_lock(op) ==
    IF op = "index"
    THEN {"get_index_file", "get_index_file_by_path", "get_file",
          "create_tombstone_metadata", "remove_partitions"}
    ELSE {}

\* Bound on the calls of the study.
MaxLockCalls == 4

InitLk ==
    /\ CliIdle
    /\ CheckRunIdle
    /\ LockerIdle
    /\ GetIdle
    /\ SlIdle
    /\ ConcIdle
    /\ RegIdle
    /\ DerivedIdle
    /\ PDIdle
    /\ GHIdle
    /\ RtIdle
    /\ SgIdle
    /\ lk_lock = NoThread
    /\ lk_pc = [t \in Threads |-> "idle"]
    /\ lk_op = [t \in Threads |-> None]
    /\ lk_last = [t \in Threads |-> "none"]
    /\ lk_calls = 0

\* A thread calls a locked operation of a locker and reaches the with
\* statement.
LkCall(t, op, locker) ==
    /\ lk_pc[t] = "idle"
    /\ lk_calls < MaxLockCalls
    /\ lk_calls' = lk_calls + 1
    /\ lk_op' = [lk_op EXCEPT ![t] = [op |-> op, locker |-> locker]]
    /\ lk_pc' = [lk_pc EXCEPT ![t] = "waiting"]
    /\ UNCHANGED <<cliVars, checkRunVars, lockerVars, getVars,
                   slVars, concVars, regVars, derivedVars, pdVars, ghVars,
                   rtVars, sgVars,
                   lk_lock, lk_last>>

\* Lock.__enter__: acquire() returns once no thread holds the lock (the lock
\* is not reentrant).
LkAcquire(t) ==
    /\ lk_pc[t] \in {"waiting", "nested"}
    /\ lock_acquire(lk_lock)
    /\ lk_lock' = t
    /\ lk_pc' = [lk_pc EXCEPT ![t] = "holding"]
    /\ UNCHANGED <<cliVars, checkRunVars, lockerVars, getVars,
                   slVars, concVars, regVars, derivedVars, pdVars, ghVars,
                   rtVars, sgVars,
                   lk_op, lk_last, lk_calls>>

\* The with block calls a method of the locker: a locked operation makes the
\* thread wait for the lock again, another method runs and returns.
LkBodyCall(t, method) ==
    /\ lk_pc[t] = "holding"
    /\ method \in called_under_lock(lk_op[t].op)
    /\ lk_pc' = [lk_pc EXCEPT ![t] = IF method \in LockedOps THEN "nested"
                                     ELSE "holding"]
    /\ lk_last' = [lk_last EXCEPT ![t] = method]
    /\ UNCHANGED <<cliVars, checkRunVars, lockerVars, getVars,
                   slVars, concVars, regVars, derivedVars, pdVars, ghVars,
                   rtVars, sgVars,
                   lk_lock, lk_op, lk_calls>>

\* The with block ends, by its last statement or by an exception (KeyError
\* of create_tombstone_metadata, StopIteration of iter_commits, an error of
\* git): Lock.__exit__ releases the lock.
LkLeave(t, how) ==
    /\ lk_pc[t] = "holding"
    /\ lk_lock' = NoThread
    /\ lk_pc' = [lk_pc EXCEPT ![t] = "idle"]
    /\ lk_op' = [lk_op EXCEPT ![t] = None]
    /\ lk_last' = [lk_last EXCEPT ![t] = how]
    /\ UNCHANGED <<cliVars, checkRunVars, lockerVars, getVars,
                   slVars, concVars, regVars, derivedVars, pdVars, ghVars,
                   rtVars, sgVars,
                   lk_calls>>

\* A step of a thread that is at or inside a with block.
LkProgress ==
    \E t \in Threads : LkAcquire(t) \/ LkLeave(t, "returned")

NextLk ==
    \E t \in Threads :
        \/ \E op \in LockedOps, locker \in LkLockers : LkCall(t, op, locker)
        \/ LkAcquire(t)
        \/ \E method \in called_under_lock(IF lk_op[t] = None THEN "none"
                                           ELSE lk_op[t].op) :
              LkBodyCall(t, method)
        \/ \E how \in {"returned", "raised"} : LkLeave(t, how)

SpecLk == InitLk /\ [][NextLk]_vars

\* C37: no thread waits for the lock it holds, the lock is held exactly by
\* the thread inside a with block (it is released however the block ends),
\* and whenever a thread waits for the lock some thread can take it or
\* leave its with block, whatever the lockers the calls are made on.
C37_NoSelfAcquireNoDeadlock ==
    /\ \A t \in Threads : lk_pc[t] # "nested"
    /\ \A t \in Threads : (lk_lock = t) <=> (lk_pc[t] = "holding")
    /\ (\E t \in Threads : lk_pc[t] = "waiting") => ENABLED LkProgress

\* A call of index on an extra locker holds the lock after an earlier call
\* of the thread ended with an exception, while the other thread waits with
\* a call on the primary locker.
C37_Witness ==
    /\ lk_lock = 1
    /\ lk_op[1] = [op |-> "index", locker |-> "extra"]
    /\ lk_last[1] = "create_tombstone_metadata"
    /\ lk_pc[2] = "waiting"
    /\ lk_op[2] = [op |-> "get_latest_commit", locker |-> "primary"]
    /\ lk_last[2] = "raised"

\* C38: once run_notifiers has called a notifier, the run ends with every
\* requested notifier called, the stdout notifier among them, whether or
\* not a notify() raised.
C38_NotifierFailureDoesNotStopOthers ==
    (Terminated /\ notified # <<>>)
    => /\ Len(notified) = Len(opts.notify)
       /\ \E i \in 1..Len(notified) : notified[i].name = "stdout"

(***************************************************************************)
(* SlackNotifier._send_message: one message posted to its channels.        *)
(***************************************************************************)

\* Bound on notify.slack.retries (3 when not configured), and the channel
\* lists of the study.
MaxRetries == 3
SlChannelLists == {<<"#one">>, <<"#one", "#two">>}

\* What the endpoint answers: success, too many requests with or without a
\* Retry-After header, or a server error.
NoHeader == 0
SlResponses == {[status_code |-> 200, retry_after |-> NoHeader],
                [status_code |-> 429, retry_after |-> NoHeader],
                [status_code |-> 429, retry_after |-> 1],
                [status_code |-> 500, retry_after |-> NoHeader]}

\* The test of the while loop.
may_post(retry, retries) == retry < retries

\* time.sleep(int(response.headers.get("Retry-After", retry)) + 1).
sleep_seconds(response, retry) ==
    (IF response.retry_after = NoHeader THEN retry ELSE response.retry_after) + 1

\* _send_message is called with the channels of an accreditation.
InitSl ==
    /\ CliIdle
    /\ CheckRunIdle
    /\ LockerIdle
    /\ GetIdle
    /\ ConcIdle
    /\ RegIdle
    /\ DerivedIdle
    /\ PDIdle
    /\ GHIdle
    /\ RtIdle
    /\ SgIdle
    /\ LkIdle
    /\ sl_retries \in 1..MaxRetries
    /\ sl_channels \in SlChannelLists
    /\ sl_pc = "loop"
    /\ sl_channel = 1
    /\ sl_retry = 0
    /\ sl_posts = [i \in DOMAIN sl_channels |-> 0]
    /\ sl_delivered = {}
    /\ sl_slept = 0

\* One iteration of the while loop: requests.post; after 429 the thread
\* sleeps and retry grows; otherwise raise_for_status raises for an error
\* status, and the loop is left for the next channel.
SlPost(response) ==
    /\ sl_pc = "loop"
    /\ sl_channel <= Len(sl_channels)
    /\ may_post(sl_retry, sl_retries)
    /\ sl_posts' = [sl_posts EXCEPT ![sl_channel] = @ + 1]
    /\ IF response.status_code = 429
       THEN /\ sl_slept' = sl_slept + sleep_seconds(response, sl_retry)
            /\ sl_retry' = sl_retry + 1
            /\ UNCHANGED <<sl_pc, sl_channel, sl_delivered>>
       ELSE IF response.status_code >= 400
       THEN /\ sl_pc' = "HTTPError"
            /\ UNCHANGED <<sl_channel, sl_retry, sl_delivered, sl_slept>>
       ELSE /\ sl_delivered' = sl_delivered \cup {sl_channel}
            /\ sl_channel' = sl_channel + 1
            /\ sl_retry' = 0
            /\ UNCHANGED <<sl_pc, sl_slept>>
    /\ UNCHANGED <<cliVars, checkRunVars, lockerVars, getVars,
                   concVars, regVars, derivedVars, pdVars, ghVars, rtVars,
                   sgVars, lkVars,
                   sl_retries, sl_channels>>

\* The while loop ends because retry has reached retries: the for loop
\* goes on with the next channel.
SlLoopEnds ==
    /\ sl_pc = "loop"
    /\ sl_channel <= Len(sl_channels)
    /\ ~may_post(sl_retry, sl_retries)
    /\ sl_channel' = sl_channel + 1
    /\ sl_retry' = 0
    /\ UNCHANGED <<cliVars, checkRunVars, lockerVars, getVars,
                   concVars, regVars, derivedVars, pdVars, ghVars, rtVars,
                   sgVars, lkVars,
                   sl_retries, sl_channels, sl_pc, sl_posts, sl_delivered, sl_slept>>

\* The for loop is over: _send_message returns.
SlReturn ==
    /\ sl_pc = "loop"
    /\ sl_channel > Len(sl_channels)
    /\ sl_pc' = "returned"
    /\ UNCHANGED <<cliVars, checkRunVars, lockerVars, getVars,
                   concVars, regVars, derivedVars, pdVars, ghVars, rtVars,
                   sgVars, lkVars,
                   sl_retries, sl_channels, sl_channel, sl_retry, sl_posts,
                   sl_delivered, sl_slept>>

NextSl ==
    \/ \E response \in SlResponses : SlPost(response)
    \/ SlLoopEnds
    \/ SlReturn

SpecSl == InitSl /\ [][NextSl]_vars

\* C39: no channel gets more posts than the configured retries, and
\* _send_message, which logs nothing, returns without an error only when
\* every channel's post got a response other than 429.
C39_RetryBudgetAndFailureSurfaced ==
    /\ \A i \in DOMAIN sl_posts : sl_posts[i] <= sl_retries
    /\ sl_pc = "returned" => sl_delivered = DOMAIN sl_channels

====
